---- MODULE Spec2Model ----
(***************************************************************************)
(* Clinic management system: the appointment scheduler                     *)
(* (models/appointment_manager.py), the visit lifecycle                    *)
(* (models/patient_manager.py) and the archival sweep                      *)
(* (models/config_manager.py, archive_old_visits).                         *)
(*                                                                         *)
(* A Python dict is a TLA+ function whose DOMAIN is its set of keys; a     *)
(* key that is absent is absent from the DOMAIN.  Every mutating method    *)
(* returns a pair (success, message); the variable result holds the        *)
(* return value of the last call.                                          *)
(***************************************************************************)
EXTENDS Integers, Sequences, FiniteSets, TLC

VARIABLES
    appointments,   \* AppointmentManager.appointments : id -> dict
    patients,       \* PatientManager.patients         : id -> dict
    active_visits,  \* PatientManager.active_visits    : patient id -> dict
    cfg_patients,   \* ConfigManager.config["patients"]
    cfg_archived,   \* ConfigManager.config["archived_visits"]
    shared,         \* PatientManager.patients is the very dict config["patients"]
    documents_metadata, \* DocumentsManager.documents_metadata : patient id -> id -> dict
    files,          \* the files under documents_dir, as pairs <<patient id, file name>>
    test_results,   \* TestResultsManager.test_results : patient id -> id -> dict
    instances,      \* the AppointmentManager instances over one ConfigManager
    users,          \* ConfigManager.users : username -> dict
    login,          \* LoginWindow.login_attempts, and the failures seen in a row
    now,            \* the wall clock, datetime.datetime.now()
    result          \* what the call of the step just taken returned

vars == <<appointments, patients, active_visits, cfg_patients, cfg_archived, shared,
          documents_metadata, files, test_results, instances, users, login, now, result>>

(***************************************************************************)
(* Python dict operations                                                  *)
(***************************************************************************)
EmptyDict == [k \in {} |-> ""]

\* nothing is done to the documents and the test results
DocumentsIdle == UNCHANGED <<documents_metadata, files, test_results>>

\* no document and no test result is on record
NoDocuments == documents_metadata = EmptyDict /\ files = {} /\ test_results = EmptyDict

\* the further AppointmentManager instances, the user table and the login
\* dialog, for the steps that do not touch them and the runs that do not use them
NoInstances == [objects |-> <<>>, config |-> 0, managers |-> <<>>]
NoLogin == [login_attempts |-> 0, failed_in_a_row |-> 0]
ElsewhereIdle == UNCHANGED <<instances, users, login>>
NothingElsewhere == instances = NoInstances /\ users = EmptyDict /\ login = NoLogin

\* d.get(k, default)
Get(d, k, default) == IF k \in DOMAIN d THEN d[k] ELSE default

\* d[k] = v
Put(d, k, v) == [x \in DOMAIN d \cup {k} |-> IF x = k THEN v ELSE d[x]]

\* del d[k]
Del(d, k) == [x \in DOMAIN d \ {k} |-> d[x]]

\* d.update(u), also "for key, value in u.items(): d[key] = value"
DictUpdate(d, u) == [x \in DOMAIN d \cup DOMAIN u |-> IF x \in DOMAIN u THEN u[x] ELSE d[x]]

\* Python's None where a string is expected, and the truth value of a string
None == "<None>"
Truthy(s) == s # None /\ s # ""

\* the value datetime.datetime.now().isoformat() writes into an appointment
\* (created_on, last_updated, completed_on, cancelled_on): no appointment
\* operation reads these stamps back
Stamp == "<now>"

(***************************************************************************)
(* Appointment datetimes: ISO-8601 strings, parsed by                      *)
(* datetime.datetime.fromisoformat into minutes of the day.                *)
(***************************************************************************)
IsoMinutes == ("2025-01-10T09:00" :> 540) @@ ("2025-01-10T09:30" :> 570)

\* the strings fromisoformat accepts; any other string raises ValueError
Parsable(s) == s \in DOMAIN IsoMinutes

fromisoformat(s) == IsoMinutes[s]

\* appointment_data.get("duration", 30)
DefaultDuration == 30

Doctors == {"Dr. Smith", "Dr. Johnson"}
SuppliedIds == {"", "a1"}
UuidPool == {"uuid-1"}
Durations == {45}

\* the most appointments held at once
MaxAppointments == 2

(***************************************************************************)
(* AppointmentManager._check_appointment_available                         *)
(***************************************************************************)
\* lines 310-311: the overlap test between the candidate and one stored appointment
Overlap(a_start, a_end, b_start, b_end) == a_start < b_end /\ a_end > b_start

\* lines 296-297: "if exclude_id and appt_id == exclude_id: continue"
SkipExcluded(appt_id, exclude_id) == Truthy(exclude_id) /\ appt_id = exclude_id

\* a faulty loop body that passes over cancelled and completed appointments
ConflictsWith_ActiveOnly(appts, appt_id, doctor, a_start, a_end, exclude_id) ==
    LET appt_data == appts[appt_id] IN
    /\ ~SkipExcluded(appt_id, exclude_id)
    /\ Get(appt_data, "status", "scheduled") \notin {"cancelled", "completed"}
    /\ Get(appt_data, "doctor", None) = doctor
    /\ Parsable(Get(appt_data, "datetime", ""))
    /\ LET existing_datetime == fromisoformat(appt_data["datetime"])
           existing_end == existing_datetime + Get(appt_data, "duration", DefaultDuration)
       IN  Overlap(a_start, a_end, existing_datetime, existing_end)

\* one pass of the loop body for the stored appointment appt_id: TRUE when it conflicts
ConflictsWith(appts, appt_id, doctor, a_start, a_end, exclude_id) ==
    LET appt_data == appts[appt_id] IN
    /\ ~SkipExcluded(appt_id, exclude_id)
    /\ Get(appt_data, "doctor", None) = doctor
    \* fromisoformat raising inside the inner try skips the stored appointment
    /\ Parsable(Get(appt_data, "datetime", ""))
    /\ LET existing_datetime == fromisoformat(appt_data["datetime"])
           existing_end == existing_datetime + Get(appt_data, "duration", DefaultDuration)
       IN  Overlap(a_start, a_end, existing_datetime, existing_end)

check_appointment_available(appts, appointment_data, exclude_id) ==
    LET datetime_str == Get(appointment_data, "datetime", "")
        doctor == Get(appointment_data, "doctor", "")
        duration == Get(appointment_data, "duration", DefaultDuration)
    IN  IF datetime_str = "" \/ doctor = "" THEN FALSE
        \* ValueError from fromisoformat is caught by the outer except: not available
        ELSE IF ~Parsable(datetime_str) THEN FALSE
        ELSE LET appointment_datetime == fromisoformat(datetime_str)
                 appointment_end == appointment_datetime + duration
             IN  ~ \E appt_id \in DOMAIN appts :
                     ConflictsWith(appts, appt_id, doctor, appointment_datetime,
                                   appointment_end, exclude_id)

(***************************************************************************)
(* AppointmentManager: the mutating methods, each a function from the      *)
(* appointment collection and the arguments to the new collection and the  *)
(* returned pair.  save_data() follows every successful mutation; its      *)
(* return value is discarded by every caller.                              *)
(***************************************************************************)
Return(appts, op, ok, msg) == [appointments |-> appts, result |-> [op |-> op, ok |-> ok, msg |-> msg]]

MsgExists == "Appointment ID already exists"
MsgNoPatient == "Patient ID is required"
MsgNoDatetime == "Appointment date and time is required"
MsgConflict == "Appointment time conflicts with an existing appointment"
MsgUpdateConflict == "Updated appointment time conflicts with an existing appointment"
MsgNotFound == "Appointment ID not found"

\* lines 66-74: the record add_appointment stores
NewAppointment(appointment_data) ==
    LET stamped == Put(appointment_data, "created_on", Stamp)
    IN  IF "status" \in DOMAIN stamped THEN stamped ELSE Put(stamped, "status", "scheduled")

\* a faulty add_appointment that stores the appointment before it checks for a conflict
add_appointment_StoreFirst(appts, appointment_data, uuid) ==
    LET appointment_id == Get(appointment_data, "id", uuid)
        stored == Put(appts, appointment_id, NewAppointment(appointment_data))
    IN  IF appointment_id \in DOMAIN appts
        THEN Return(appts, "add_appointment", FALSE, MsgExists)
        ELSE IF ~Truthy(Get(appointment_data, "patient_id", None))
        THEN Return(appts, "add_appointment", FALSE, MsgNoPatient)
        ELSE IF ~Truthy(Get(appointment_data, "datetime", None))
        THEN Return(appts, "add_appointment", FALSE, MsgNoDatetime)
        ELSE IF ~check_appointment_available(appts, appointment_data, None)
        THEN Return(stored, "add_appointment", FALSE, MsgConflict)
        ELSE Return(stored, "add_appointment", TRUE, "Appointment scheduled successfully")

\* uuid is the value str(uuid.uuid4()) takes, used when the caller gives no "id"
add_appointment(appts, appointment_data, uuid) ==
    LET appointment_id == Get(appointment_data, "id", uuid)
    IN  IF appointment_id \in DOMAIN appts
        THEN Return(appts, "add_appointment", FALSE, MsgExists)
        ELSE IF ~Truthy(Get(appointment_data, "patient_id", None))
        THEN Return(appts, "add_appointment", FALSE, MsgNoPatient)
        ELSE IF ~Truthy(Get(appointment_data, "datetime", None))
        THEN Return(appts, "add_appointment", FALSE, MsgNoDatetime)
        ELSE IF ~check_appointment_available(appts, appointment_data, None)
        THEN Return(appts, "add_appointment", FALSE, MsgConflict)
        ELSE Return(Put(appts, appointment_id, NewAppointment(appointment_data)),
                    "add_appointment", TRUE, "Appointment scheduled successfully")

\* lines 98-106: has the datetime (the doctor) been given and does it differ from the stored one
FieldChanged(appointment, updated_data, key) ==
    key \in DOMAIN updated_data /\ updated_data[key] # Get(appointment, key, None)

update_appointment(appts, appointment_id, updated_data) ==
    IF appointment_id \notin DOMAIN appts
    THEN Return(appts, "update_appointment", FALSE, MsgNotFound)
    ELSE LET appointment == appts[appointment_id]
             date_changed == FieldChanged(appointment, updated_data, "datetime")
             doctor_changed == FieldChanged(appointment, updated_data, "doctor")
             check_data == DictUpdate(appointment, updated_data)
         IN  IF (date_changed \/ doctor_changed)
                /\ ~check_appointment_available(appts, check_data, appointment_id)
             THEN Return(appts, "update_appointment", FALSE, MsgUpdateConflict)
             ELSE Return(Put(appts, appointment_id,
                             Put(DictUpdate(appointment, updated_data), "last_updated", Stamp)),
                         "update_appointment", TRUE, "Appointment updated successfully")

\* a faulty delete_appointment that takes the patient's other appointments along
delete_appointment_DropsPatient(appts, appointment_id) ==
    IF appointment_id \notin DOMAIN appts
    THEN Return(appts, "delete_appointment", FALSE, MsgNotFound)
    ELSE Return([id \in {i \in DOMAIN appts :
                            appts[i]["patient_id"] # appts[appointment_id]["patient_id"]}
                    |-> appts[id]],
                "delete_appointment", TRUE, "Appointment deleted successfully")

delete_appointment(appts, appointment_id) ==
    IF appointment_id \notin DOMAIN appts
    THEN Return(appts, "delete_appointment", FALSE, MsgNotFound)
    ELSE Return(Del(appts, appointment_id), "delete_appointment", TRUE,
                "Appointment deleted successfully")

\* "if notes: appointment[key] = notes", for the optional notes / reason argument
WithOptional(appointment, key, text) ==
    IF Truthy(text) THEN Put(appointment, key, text) ELSE appointment

mark_appointment_completed(appts, appointment_id, notes) ==
    IF appointment_id \notin DOMAIN appts
    THEN Return(appts, "mark_appointment_completed", FALSE, MsgNotFound)
    ELSE LET marked == Put(Put(appts[appointment_id], "status", "completed"),
                           "completed_on", Stamp)
         IN  Return(Put(appts, appointment_id, WithOptional(marked, "notes", notes)),
                    "mark_appointment_completed", TRUE, "Appointment marked as completed")

mark_appointment_cancelled(appts, appointment_id, reason) ==
    IF appointment_id \notin DOMAIN appts
    THEN Return(appts, "mark_appointment_cancelled", FALSE, MsgNotFound)
    ELSE LET marked == Put(Put(appts[appointment_id], "status", "cancelled"),
                           "cancelled_on", Stamp)
         IN  Return(Put(appts, appointment_id, WithOptional(marked, "cancel_reason", reason)),
                    "mark_appointment_cancelled", TRUE, "Appointment cancelled")

(***************************************************************************)
(* The arguments the callers pass                                          *)
(***************************************************************************)
\* the dict d, and d with key k set to each value of S
OptionalKey(d, k, S) == {d} \cup {Put(d, k, v) : v \in S}

WellFormedData ==
    UNION {OptionalKey(d, "duration", Durations) :
           d \in [patient_id : {"P1"}, datetime : DOMAIN IsoMinutes, doctor : Doctors]}

\* dicts add_appointment refuses before it looks at the calendar
MalformedData ==
    { [patient_id |-> "", datetime |-> "2025-01-10T09:00", doctor |-> "Dr. Smith"],
      [datetime |-> "2025-01-10T09:00", doctor |-> "Dr. Smith"],
      [patient_id |-> "P1", datetime |-> "", doctor |-> "Dr. Smith"],
      [patient_id |-> "P1", datetime |-> "not-a-date", doctor |-> "Dr. Smith"],
      [patient_id |-> "P1", datetime |-> "2025-01-10T09:00", doctor |-> ""],
      [patient_id |-> "P1", datetime |-> "2025-01-10T09:00"] }

AddInputs == UNION {OptionalKey(d, "id", SuppliedIds) : d \in WellFormedData \cup MalformedData}

AppointmentIds == SuppliedIds \cup UuidPool

UpdateInputs ==
    UNION {OptionalKey(d, "duration", Durations) :
           d \in UNION {OptionalKey(e, "doctor", Doctors) :
                        e \in OptionalKey(EmptyDict, "datetime",
                                          DOMAIN IsoMinutes \cup {"not-a-date"})}}

Annotations == {None}

(***************************************************************************)
(* The appointment scheduler as a state machine                            *)
(***************************************************************************)
NoCall == [op |-> "init", ok |-> TRUE, msg |-> ""]

OthersIdle ==
    UNCHANGED <<patients, active_visits, cfg_patients, cfg_archived, shared, now>> /\ DocumentsIdle /\ ElsewhereIdle

Done(r) == appointments' = r.appointments /\ result' = r.result /\ OthersIdle

AddAppointment ==
    \E appointment_data \in AddInputs, uuid \in UuidPool :
        /\ Cardinality(DOMAIN appointments) < MaxAppointments
        /\ "id" \in DOMAIN appointment_data \/ uuid \notin DOMAIN appointments
        /\ Done(add_appointment(appointments, appointment_data, uuid))

UpdateAppointment ==
    \E appointment_id \in AppointmentIds, updated_data \in UpdateInputs :
        Done(update_appointment(appointments, appointment_id, updated_data))

DeleteAppointment ==
    \E appointment_id \in AppointmentIds :
        Done(delete_appointment(appointments, appointment_id))

MarkCompleted ==
    \E appointment_id \in AppointmentIds, notes \in Annotations :
        Done(mark_appointment_completed(appointments, appointment_id, notes))

MarkCancelled ==
    \E appointment_id \in AppointmentIds, reason \in Annotations :
        Done(mark_appointment_cancelled(appointments, appointment_id, reason))

Init ==
    /\ appointments = EmptyDict
    /\ patients = EmptyDict
    /\ active_visits = EmptyDict
    /\ cfg_patients = EmptyDict
    /\ cfg_archived = EmptyDict
    /\ shared = TRUE
    /\ now = 0
    /\ result = NoCall
    /\ NothingElsewhere
    /\ NoDocuments

Next ==
    \/ AddAppointment
    \/ UpdateAppointment
    \/ DeleteAppointment
    \/ MarkCompleted
    \/ MarkCancelled

Spec == Init /\ [][Next]_vars

(***************************************************************************)
(* Properties of the appointment scheduler                                 *)
(***************************************************************************)
StartOf(appt) == fromisoformat(appt["datetime"])
EndOf(appt) == StartOf(appt) + Get(appt, "duration", DefaultDuration)

\* the half-open intervals [datetime, datetime + duration) of a and b share a minute
Intersect(a, b) == StartOf(a) < EndOf(b) /\ StartOf(b) < EndOf(a)

SameDoctor(a, b) == Get(a, "doctor", None) = Get(b, "doctor", None)

\* C1: no two distinct stored appointments of the same doctor have overlapping
\* intervals [datetime, datetime + duration), a missing duration counting as 30,
\* in any state reached from the empty collection.
C1_NoDoubleBooking ==
    \A i, j \in DOMAIN appointments :
        (i # j /\ SameDoctor(appointments[i], appointments[j]))
            => ~Intersect(appointments[i], appointments[j])

\* C2: an add_appointment or update_appointment refused for a conflict returns
\* (False, message) and leaves the appointment collection exactly as it was.
C2_ConflictRefusalChangesNothing ==
    [][(result'.op \in {"add_appointment", "update_appointment"}
        /\ result'.msg \in {MsgConflict, MsgUpdateConflict})
       => (result'.ok = FALSE /\ appointments' = appointments)]_vars

\* an update has just been refused while another appointment of the same doctor
\* is on the calendar
C2_Witness ==
    /\ result.op = "update_appointment"
    /\ result.msg = MsgUpdateConflict
    /\ \E i, j \in DOMAIN appointments :
           i # j /\ SameDoctor(appointments[i], appointments[j])

Terminal == {"completed", "cancelled"}

\* C7: once an appointment is completed or cancelled, no later
\* mark_appointment_completed or mark_appointment_cancelled changes its status.
C7_TerminalStatusesStay ==
    [][result'.op \in {"mark_appointment_completed", "mark_appointment_cancelled"}
       => \A id \in DOMAIN appointments \cap DOMAIN appointments' :
              appointments[id]["status"] \in Terminal
                  => appointments'[id]["status"] = appointments[id]["status"]]_vars

(***************************************************************************)
(* The availability check on its own: the collection is whatever           *)
(* _initialize_appointments found in the JSON document (lines 29-35), which *)
(* may hold datetimes that do not parse, and the check is called with any  *)
(* candidate and any exclude_id.                                           *)
(***************************************************************************)
LoadedRecords ==
    {NewAppointment(d) :
        d \in UNION {OptionalKey(e, "duration", Durations) :
                     e \in [patient_id : {"P1"},
                            datetime : DOMAIN IsoMinutes \cup {"not-a-date"},
                            doctor : Doctors]}}

LoadedCollections ==
    UNION {[S -> LoadedRecords] :
           S \in {T \in SUBSET AppointmentIds : Cardinality(T) <= MaxAppointments}}

InitAvailable ==
    /\ appointments \in LoadedCollections
    /\ patients = EmptyDict
    /\ active_visits = EmptyDict
    /\ cfg_patients = EmptyDict
    /\ cfg_archived = EmptyDict
    /\ shared = TRUE
    /\ now = 0
    /\ result = NoCall
    /\ NothingElsewhere
    /\ NoDocuments

CheckAvailable ==
    \E appointment_data \in WellFormedData \cup MalformedData,
       exclude_id \in AppointmentIds \cup {None} :
        /\ result' = [op |-> "_check_appointment_available",
                      ok |-> check_appointment_available(appointments, appointment_data,
                                                         exclude_id),
                      msg |-> "",
                      data |-> appointment_data,
                      exclude_id |-> exclude_id]
        /\ UNCHANGED appointments
        /\ OthersIdle

NextAvailable == CheckAvailable

SpecAvailable == InitAvailable /\ [][NextAvailable]_vars

\* the candidate of the last check overlaps the stored appointment id of its doctor
CandidateHits(id) ==
    LET existing == appointments[id]
        candidate == result.data
    IN  /\ Get(existing, "doctor", None) = candidate["doctor"]
        /\ Parsable(Get(existing, "datetime", ""))
        /\ StartOf(candidate) < EndOf(existing)
        /\ EndOf(candidate) > StartOf(existing)

CheckedWellFormed ==
    /\ result.op = "_check_appointment_available"
    /\ Truthy(Get(result.data, "doctor", None))
    /\ Parsable(Get(result.data, "datetime", ""))

\* C3: for a candidate with a non-empty doctor and a parsable datetime, the check
\* rejects exactly when some other stored appointment (any but the one excluded)
\* of the same doctor with a parsable datetime satisfies
\* candidate_start < existing_end and candidate_end > existing_start.
C3_RejectsExactlyOnOverlap ==
    CheckedWellFormed
        => (result.ok = FALSE
              <=> \E id \in DOMAIN appointments \ {result.exclude_id} : CandidateHits(id))

\* what the code does: the same, except that an empty-string exclude_id excludes nothing
C3_RejectsExactlyOnOverlapUnlessEmptyId ==
    (CheckedWellFormed /\ result.exclude_id # "")
        => (result.ok = FALSE
              <=> \E id \in DOMAIN appointments \ {result.exclude_id} : CandidateHits(id))

(***************************************************************************)
(* Times of the visit lifecycle.  The clock now counts ticks.  A time      *)
(* value is a pair <<kind, t>>: a datetime.datetime object, or a string    *)
(* (the isoformat() text of tick t, a text no parser accepts, or "").      *)
(***************************************************************************)
\* the last tick of the clock
MaxClock == 2

DateTimeObj(t) == <<"datetime", t>>
IsoString(t) == <<"isoformat", t>>
NotADate == <<"not-a-date", 0>>
EmptyString == <<"", 0>>

IsDateTimeObj(v) == v[1] = "datetime"

\* datetime.isoformat()
isoformat(v) == IsoString(v[2])

(***************************************************************************)
(* PatientManager: add_patient and the visit lifecycle, each a function    *)
(* from (patients, active_visits) and the arguments, at clock reading t,   *)
(* to the new pair and the returned value.  An exception raised midway is  *)
(* caught by the method's own except clause, which returns                 *)
(* (False, "Error: ...") and undoes nothing.                               *)
(***************************************************************************)
Outcome(pats, visits, op, ok, msg) ==
    [patients |-> pats, active_visits |-> visits, result |-> [op |-> op, ok |-> ok, msg |-> msg]]

MsgPatientNotFound == "Patient ID not found"
MsgPatientExists == "Patient ID already exists"
MsgNameRequired == "Patient name is required"
MsgAlreadyActive == "Patient already has an active visit"
MsgNoActiveVisit == "No active visit found for patient"
MsgNoActiveVisitNotes == "No active visit found"
MsgKeyError == "Error: KeyError"
\* the KeyError of the success message's patients[patient_id]['name'], raised after the save
MsgNameKeyError == "Error: 'name'"

\* lines 83-92: the record add_patient stores
NewPatient(patient_data, t) ==
    LET stamped == Put(patient_data, "created_on", IsoString(t))
        with_medical == IF "medical_history" \in DOMAIN stamped THEN stamped
                        ELSE Put(stamped, "medical_history", <<>>)
    IN  IF "visit_history" \in DOMAIN with_medical THEN with_medical
        ELSE Put(with_medical, "visit_history", <<>>)

add_patient(pats, visits, patient_data, t) ==
    LET patient_id == Get(patient_data, "id", ToString(Cardinality(DOMAIN pats) + 1))
    IN  IF patient_id \in DOMAIN pats
        THEN Outcome(pats, visits, "add_patient", FALSE, MsgPatientExists)
        ELSE IF ~Truthy(Get(patient_data, "name", None))
        THEN Outcome(pats, visits, "add_patient", FALSE, MsgNameRequired)
        ELSE Outcome(Put(pats, patient_id, NewPatient(patient_data, t)), visits,
                     "add_patient", TRUE, "Patient added successfully")

\* lines 213-217: the active-visit entry start_visit builds from visit_data
\* (None and {} alike are the empty dict)
NewVisit(visit_data, t) ==
    LET v1 == Put(visit_data, "start_time", DateTimeObj(t))
        v2 == Put(v1, "notes", Get(v1, "notes", ""))
        v3 == Put(v2, "doctor", Get(v2, "doctor", ""))
        v4 == Put(v3, "reason", Get(v3, "reason", ""))
    IN  Put(v4, "status", "active")

\* a faulty start_visit that does not look for an active visit first
start_visit_NoActiveCheck(pats, visits, patient_id, visit_data, t) ==
    IF patient_id \notin DOMAIN pats
    THEN Outcome(pats, visits, "start_visit", FALSE, MsgPatientNotFound)
    ELSE Outcome(pats, Put(visits, patient_id, NewVisit(visit_data, t)),
                 "start_visit", patient_id \notin DOMAIN visits,
                 IF patient_id \in DOMAIN visits THEN MsgAlreadyActive ELSE "Visit started")

start_visit(pats, visits, patient_id, visit_data, t) ==
    IF patient_id \notin DOMAIN pats
    THEN Outcome(pats, visits, "start_visit", FALSE, MsgPatientNotFound)
    ELSE IF patient_id \in DOMAIN visits
    THEN Outcome(pats, visits, "start_visit", FALSE, MsgAlreadyActive)
    ELSE LET started == Put(visits, patient_id, NewVisit(visit_data, t))
         IN  \* line 228 formats the message with patients[patient_id]['name']
             IF "name" \notin DOMAIN pats[patient_id]
             THEN Outcome(pats, started, "start_visit", FALSE, MsgNameKeyError)
             ELSE Outcome(pats, started, "start_visit", TRUE, "Visit started")

\* lines 247-259: the finished visit, written into the active-visit entry in place
\* (visit_notes None and {} alike are the empty dict, which "if visit_notes" skips)
FinishedVisit(visit_data, visit_notes, t) ==
    LET v1 == Put(visit_data, "end_time", IsoString(t))
        v2 == IF DOMAIN visit_notes = {} THEN v1
              ELSE LET n1 == Put(v1, "notes", Get(visit_notes, "notes", Get(v1, "notes", "")))
                       n2 == Put(n1, "diagnosis", Get(visit_notes, "diagnosis", ""))
                       n3 == Put(n2, "treatment", Get(visit_notes, "treatment", ""))
                   IN  Put(n3, "follow_up", Get(visit_notes, "follow_up", ""))
    IN  Put(v2, "status", "completed")

\* lines 258-259
StartTimeAsString(visit_data) ==
    IF IsDateTimeObj(visit_data["start_time"])
    THEN Put(visit_data, "start_time", isoformat(visit_data["start_time"]))
    ELSE visit_data

\* lines 266-272
MedicalEntry(visit_notes, t) ==
    [date |-> IsoString(t), type |-> "diagnosis", condition |-> visit_notes["diagnosis"],
     notes |-> Get(visit_notes, "notes", ""), treatment |-> Get(visit_notes, "treatment", "")]

\* a faulty line 265 that asks only whether a diagnosis key was given
HasDiagnosisKey(visit_notes) == "diagnosis" \in DOMAIN visit_notes

\* line 265
HasDiagnosis(visit_notes) == Truthy(Get(visit_notes, "diagnosis", None))

\* patients[patient_id][key].append(entry)
AppendTo(pats, patient_id, key, entry) ==
    Put(pats, patient_id, Put(pats[patient_id], key, Append(pats[patient_id][key], entry)))

\* a faulty end_visit that logs a visit before it has found an active one
end_visit_LogsFirst(pats, visits, patient_id, visit_notes, t) ==
    IF patient_id \notin DOMAIN pats
    THEN Outcome(pats, visits, "end_visit", FALSE, MsgPatientNotFound)
    ELSE LET visit_data == FinishedVisit(Get(visits, patient_id, EmptyDict), visit_notes, t)
             logged == AppendTo(pats, patient_id, "visit_history", visit_data)
         IN  IF patient_id \notin DOMAIN visits
             THEN Outcome(logged, visits, "end_visit", FALSE, MsgNoActiveVisit)
             ELSE Outcome(logged, Del(visits, patient_id), "end_visit", TRUE, "Visit ended")

end_visit(pats, visits, patient_id, visit_notes, t) ==
    IF patient_id \notin DOMAIN pats
    THEN Outcome(pats, visits, "end_visit", FALSE, MsgPatientNotFound)
    ELSE IF patient_id \notin DOMAIN visits
    THEN Outcome(pats, visits, "end_visit", FALSE, MsgNoActiveVisit)
    ELSE LET finished == FinishedVisit(visits[patient_id], visit_notes, t)
         IN  IF "start_time" \notin DOMAIN finished
             THEN Outcome(pats, Put(visits, patient_id, finished), "end_visit", FALSE, MsgKeyError)
             ELSE LET visit_data == StartTimeAsString(finished)
                      mutated == Put(visits, patient_id, visit_data)
                  IN  IF "visit_history" \notin DOMAIN pats[patient_id]
                      THEN Outcome(pats, mutated, "end_visit", FALSE, MsgKeyError)
                      ELSE LET logged == AppendTo(pats, patient_id, "visit_history", visit_data)
                           IN  IF HasDiagnosis(visit_notes)
                                  /\ "medical_history" \notin DOMAIN pats[patient_id]
                               THEN Outcome(logged, mutated, "end_visit", FALSE, MsgKeyError)
                               ELSE LET recorded ==
                                            IF HasDiagnosis(visit_notes)
                                            THEN AppendTo(logged, patient_id, "medical_history",
                                                          MedicalEntry(visit_notes, t))
                                            ELSE logged
                                    IN  \* line 284 formats the message with the patient's name
                                        IF "name" \notin DOMAIN pats[patient_id]
                                        THEN Outcome(recorded, Del(visits, patient_id),
                                                     "end_visit", FALSE, MsgNameKeyError)
                                        ELSE Outcome(recorded, Del(visits, patient_id),
                                                     "end_visit", TRUE, "Visit ended")

update_visit_notes(pats, visits, patient_id, notes) ==
    IF patient_id \notin DOMAIN visits
    THEN Outcome(pats, visits, "update_visit_notes", FALSE, MsgNoActiveVisitNotes)
    ELSE Outcome(pats, Put(visits, patient_id, Put(visits[patient_id], "notes", notes)),
                 "update_visit_notes", TRUE, "Visit notes updated")

(***************************************************************************)
(* The visit lifecycle as a state machine                                  *)
(***************************************************************************)
\* the most patients held at once, and the most visits one patient goes through
MaxPatients == 2
MaxVisits == 1

PatientInputs ==
    OptionalKey([name |-> "Ann"], "id", {"P1"}) \cup {[name |-> ""], [id |-> "P1"]}

\* "1" and "2" are the IDs add_patient makes up from the number of patients
PatientIds == {"P1", "1", "2"}

VisitDataInputs == {EmptyDict, [doctor |-> "Dr. Smith", reason |-> "Check-up"]}

VisitNotesInputs ==
    {EmptyDict,
     [diagnosis |-> "flu", notes |-> "rest", treatment |-> "fluids"],
     [diagnosis |-> "", notes |-> "stable"]}

NoteTexts == {"seen"}

VisitsOf(pats, patient_id) ==
    IF patient_id \in DOMAIN pats THEN Get(pats[patient_id], "visit_history", <<>>) ELSE <<>>

MedicalOf(pats, patient_id) ==
    IF patient_id \in DOMAIN pats THEN Get(pats[patient_id], "medical_history", <<>>) ELSE <<>>

AppointmentsIdle == UNCHANGED <<appointments, cfg_archived>> /\ DocumentsIdle /\ ElsewhereIdle

\* Every PatientManager method calls save_data() once its changes are made and
\* before it builds the success message; a method that returned earlier, or
\* raised earlier, did not save.
SaveReached(r) == r.result.ok \/ r.result.msg = MsgNameKeyError

\* save_data, lines 58 and 67: config["patients"] becomes a deep copy of
\* self.patients, an equal dict that is a different object; from then on the
\* manager and the configuration no longer see each other's changes.
\* Until then self.patients is config["patients"] (lines 33-37) and a change
\* made through one is a change of the other.
DoneVisit(r) ==
    /\ patients' = r.patients
    /\ active_visits' = r.active_visits
    /\ result' = r.result
    /\ IF SaveReached(r)
       THEN cfg_patients' = r.patients /\ shared' = FALSE
       ELSE cfg_patients' = (IF shared THEN r.patients ELSE cfg_patients) /\ UNCHANGED shared
    /\ UNCHANGED now
    /\ AppointmentsIdle

AddPatient ==
    \E patient_data \in PatientInputs :
        /\ Cardinality(DOMAIN patients) < MaxPatients
        /\ DoneVisit(add_patient(patients, active_visits, patient_data, now))

StartVisit ==
    \E patient_id \in PatientIds, visit_data \in VisitDataInputs :
        /\ Len(VisitsOf(patients, patient_id)) < MaxVisits
        /\ DoneVisit(start_visit(patients, active_visits, patient_id, visit_data, now))

EndVisit ==
    \E patient_id \in PatientIds, visit_notes \in VisitNotesInputs :
        DoneVisit(end_visit(patients, active_visits, patient_id, visit_notes, now))

UpdateVisitNotes ==
    \E patient_id \in PatientIds, notes \in NoteTexts :
        DoneVisit(update_visit_notes(patients, active_visits, patient_id, notes))

\* time passes between two calls
Tick ==
    /\ now < MaxClock
    /\ now' = now + 1
    /\ result' = [op |-> "tick", ok |-> TRUE, msg |-> ""]
    /\ UNCHANGED <<appointments, patients, active_visits, cfg_patients, cfg_archived, shared>>
    /\ DocumentsIdle /\ ElsewhereIdle

NextVisits ==
    \/ AddPatient
    \/ StartVisit
    \/ EndVisit
    \/ UpdateVisitNotes
    \/ Tick

SpecVisits == Init /\ [][NextVisits]_vars

(***************************************************************************)
(* Properties of the visit lifecycle.  Each says what a call made in the   *)
(* current state returns and leaves behind, for every reachable state and  *)
(* every argument.                                                         *)
(***************************************************************************)
\* C4: start_visit for a patient who has an active visit returns failure and
\* leaves the active-visits mapping, that patient's entry included, as it was;
\* so no patient ever has a second active visit.
C4_SecondStartRefused ==
    \A patient_id \in DOMAIN active_visits, visit_data \in VisitDataInputs :
        LET r == start_visit(patients, active_visits, patient_id, visit_data, now)
        IN  /\ r.result.ok = FALSE
            /\ DOMAIN r.active_visits = DOMAIN active_visits
            /\ r.active_visits[patient_id] = active_visits[patient_id]
            /\ r.active_visits = active_visits

\* a second start_visit has just been refused for a patient whose visit goes on
C4_Witness ==
    /\ result.op = "start_visit"
    /\ result.msg = MsgAlreadyActive
    /\ \E patient_id \in DOMAIN active_visits :
           active_visits[patient_id]["status"] = "active"

\* C5: end_visit for a patient ID that does not exist, or for a patient with no
\* active visit, returns failure and changes neither any patient record (so no
\* visit_history or medical_history grows) nor the active-visits mapping.
C5_EndVisitWithoutVisitChangesNothing ==
    \A patient_id \in PatientIds, visit_notes \in VisitNotesInputs :
        (patient_id \notin DOMAIN patients \/ patient_id \notin DOMAIN active_visits)
            => LET r == end_visit(patients, active_visits, patient_id, visit_notes, now)
               IN  /\ r.result.ok = FALSE
                   /\ r.patients = patients
                   /\ r.active_visits = active_visits

\* end_visit has just been refused for a patient who exists and has a history
C5_Witness ==
    /\ result.op = "end_visit"
    /\ result.msg = MsgNoActiveVisit
    /\ \E patient_id \in DOMAIN patients : Len(VisitsOf(patients, patient_id)) > 0
    /\ \E patient_id \in DOMAIN active_visits : TRUE

\* the sequence after is the sequence before with one entry appended
OneAppended(before, after) ==
    Len(after) = Len(before) + 1 /\ SubSeq(after, 1, Len(before)) = before

\* C6: a successful end_visit(patient_id, visit_notes) removes the patient's
\* active-visit entry and no other, appends exactly one snapshot with status
\* "completed" and an end_time to that patient's visit_history, appends exactly
\* one medical_history entry of type "diagnosis" if and only if visit_notes
\* carries a non-empty diagnosis, and changes no other patient's record.
C6_EndVisitEffect ==
    \A patient_id \in PatientIds, visit_notes \in VisitNotesInputs :
        LET r == end_visit(patients, active_visits, patient_id, visit_notes, now)
            history == VisitsOf(r.patients, patient_id)
            medical == MedicalOf(r.patients, patient_id)
            diagnosed == "diagnosis" \in DOMAIN visit_notes /\ visit_notes["diagnosis"] # ""
        IN  r.result.ok =>
              /\ patient_id \in DOMAIN active_visits
              /\ r.active_visits = Del(active_visits, patient_id)
              /\ OneAppended(VisitsOf(patients, patient_id), history)
              /\ history[Len(history)]["status"] = "completed"
              /\ "end_time" \in DOMAIN history[Len(history)]
              /\ IF diagnosed
                 THEN /\ OneAppended(MedicalOf(patients, patient_id), medical)
                      /\ medical[Len(medical)]["type"] = "diagnosis"
                 ELSE medical = MedicalOf(patients, patient_id)
              /\ DOMAIN r.patients = DOMAIN patients
              /\ \A other \in DOMAIN patients \ {patient_id} :
                     r.patients[other] = patients[other]

\* a visit has just been ended with a diagnosis while another patient is on record
C6_Witness ==
    /\ result.op = "end_visit"
    /\ result.ok
    /\ \E patient_id \in DOMAIN patients :
           /\ Len(VisitsOf(patients, patient_id)) = 1
           /\ Len(MedicalOf(patients, patient_id)) = 1
           /\ patient_id \notin DOMAIN active_visits
    /\ Cardinality(DOMAIN patients) = 2

(***************************************************************************)
(* ConfigManager.archive_old_visits, on config["patients"] and             *)
(* config["archived_visits"].  days and the clock are in ticks.            *)
(***************************************************************************)
\* "if not end_time_str": the key is missing or holds ""
NoEndTime(visit) == "end_time" \notin DOMAIN visit \/ visit["end_time"] = EmptyString

\* lines 437-445: fromisoformat, then strptime, accept the text (a datetime object
\* is taken as it is); anything else raises ValueError
EndTimeParses(visit) == visit["end_time"][1] \in {"isoformat", "datetime"}

ParsedEndTime(visit) == visit["end_time"][2]

\* a faulty sweep whose except clause archives the visit it could not read
KeepsVisitOnlyIfRead(visit, cutoff_date) ==
    \/ NoEndTime(visit)
    \/ (EndTimeParses(visit) /\ ParsedEndTime(visit) > cutoff_date)

\* lines 428-456: TRUE when the visit goes to visits_to_keep.  A visit whose
\* end_time does not parse raises inside the try and is kept by the except clause.
KeepsVisit(visit, cutoff_date) ==
    \/ NoEndTime(visit)
    \/ ~EndTimeParses(visit)
    \/ ParsedEndTime(visit) > cutoff_date

\* lines 424-456 for one patient
VisitsToKeep(visit_history, cutoff_date) ==
    LET Test(visit) == KeepsVisit(visit, cutoff_date)
    IN  SelectSeq(visit_history, Test)

VisitsToArchive(visit_history, cutoff_date) ==
    LET Test(visit) == ~KeepsVisit(visit, cutoff_date)
    IN  SelectSeq(visit_history, Test)

\* a faulty line 459 that leaves visit_history as it was
SweptPatientKeepingAll(patient_data, cutoff_date) == patient_data

\* line 459: patient_data["visit_history"] = visits_to_keep
SweptPatient(patient_data, cutoff_date) ==
    IF "visit_history" \notin DOMAIN patient_data THEN patient_data
    ELSE Put(patient_data, "visit_history",
             VisitsToKeep(patient_data["visit_history"], cutoff_date))

\* what the sweep moves out of one patient record
MovedOut(patient_data, cutoff_date) ==
    IF "visit_history" \notin DOMAIN patient_data THEN <<>>
    ELSE VisitsToArchive(patient_data["visit_history"], cutoff_date)

\* a faulty line 469 that replaces the bucket instead of extending it
ArchiveBucketReplaced(archived, patient_id, moved) == moved

\* lines 462-469: config["archived_visits"][patient_id].extend(visits_to_archive)
ArchiveBucket(archived, patient_id, moved) == Get(archived, patient_id, <<>>) \o moved

RECURSIVE SumOver(_, _)
SumOver(f, S) ==
    IF S = {} THEN 0
    ELSE LET x == CHOOSE y \in S : TRUE IN f[x] + SumOver(f, S \ {x})

archive_old_visits(cfg_pats, archived, days, t) ==
    LET cutoff_date == t - days
        moved == [patient_id \in DOMAIN cfg_pats |->
                     MovedOut(cfg_pats[patient_id], cutoff_date)]
        receiving == {patient_id \in DOMAIN cfg_pats : moved[patient_id] # <<>>}
        archived_count == SumOver([patient_id \in DOMAIN cfg_pats |-> Len(moved[patient_id])],
                                  DOMAIN cfg_pats)
    IN  [cfg_patients |-> [patient_id \in DOMAIN cfg_pats |->
                              SweptPatient(cfg_pats[patient_id], cutoff_date)],
         cfg_archived |-> [patient_id \in DOMAIN archived \cup receiving |->
                              IF patient_id \in receiving
                              THEN ArchiveBucket(archived, patient_id, moved[patient_id])
                              ELSE archived[patient_id]],
         result |-> [op |-> "archive_old_visits", ok |-> TRUE, msg |-> "Archived visits",
                     archived_count |-> archived_count, days |-> days]]

(***************************************************************************)
(* The archival sweep as a state machine: the document as load_config      *)
(* found it, swept any number of times while the clock runs.               *)
(***************************************************************************)
\* the longest visit_history in the loaded document
MaxHistory == 2

\* the retention periods asked for, in ticks
Days == {0, 1}

EndTimes == {IsoString(t) : t \in 0..MaxClock} \cup {NotADate, EmptyString}

LoadedVisits ==
    OptionalKey([status |-> "completed", doctor |-> "Dr. Smith", start_time |-> IsoString(0)],
                "end_time", EndTimes)

Histories == UNION {[1..n -> LoadedVisits] : n \in 0..MaxHistory}

LoadedPatients ==
    OptionalKey([name |-> "Ann", medical_history |-> <<>>], "visit_history", Histories)

\* a second patient: without visits, or with one old visit and one unreadable one
OtherPatients ==
    OptionalKey([name |-> "Bob", medical_history |-> <<>>], "visit_history",
                {<<>>,
                 <<[status |-> "completed", doctor |-> "Dr. Johnson",
                    start_time |-> IsoString(0), end_time |-> IsoString(0)],
                   [status |-> "completed", doctor |-> "Dr. Johnson",
                    start_time |-> IsoString(0), end_time |-> NotADate]>>})

\* a visit archived by an earlier run
EarlierArchived ==
    [status |-> "completed", doctor |-> "Dr. Williams", start_time |-> IsoString(0),
     end_time |-> IsoString(0)]

InitArchive ==
    /\ cfg_patients \in {("P1" :> p) : p \in LoadedPatients}
                        \cup {("P1" :> p) @@ ("P2" :> q) : p \in LoadedPatients, q \in OtherPatients}
    /\ cfg_archived \in {EmptyDict, ("P1" :> <<EarlierArchived>>)}
    /\ appointments = EmptyDict
    /\ patients = EmptyDict
    /\ active_visits = EmptyDict
    /\ shared = FALSE
    /\ now = 0
    /\ result = NoCall
    /\ NothingElsewhere
    /\ NoDocuments

ArchiveOldVisits ==
    \E days \in Days :
        LET r == archive_old_visits(cfg_patients, cfg_archived, days, now)
        IN  /\ cfg_patients' = r.cfg_patients
            /\ cfg_archived' = r.cfg_archived
            /\ result' = r.result
            /\ patients' = (IF shared THEN r.cfg_patients ELSE patients)
            /\ UNCHANGED <<appointments, active_visits, shared, now>>
            /\ DocumentsIdle /\ ElsewhereIdle

NextArchive ==
    \/ ArchiveOldVisits
    \/ Tick

SpecArchive == InitArchive /\ [][NextArchive]_vars

(***************************************************************************)
(* Properties of the archival sweep.  Each says what a run started in the  *)
(* current state does, for every reachable state and every retention       *)
(* period.                                                                 *)
(***************************************************************************)
HistoryIn(pats, patient_id) == Get(pats[patient_id], "visit_history", <<>>)

BucketIn(archived, patient_id) == Get(archived, patient_id, <<>>)

\* the visit has an end_time that reads as a time before the cutoff
IsOlder(visit, cutoff) ==
    /\ "end_time" \in DOMAIN visit
    /\ visit["end_time"][1] = "isoformat"
    /\ visit["end_time"][2] < cutoff

\* the same, a visit that ended exactly at the cutoff included
IsOld(visit, cutoff) ==
    /\ "end_time" \in DOMAIN visit
    /\ visit["end_time"][1] = "isoformat"
    /\ visit["end_time"][2] <= cutoff

\* the step is a run of archive_old_visits that moves, for every patient, exactly
\* the visits Moves picks and keeps the others, both in their order, and reports
\* the number moved
SweepMovesExactly(Moves(_, _)) ==
    result'.op = "archive_old_visits" =>
        LET cutoff == now - result'.days
            Picked(history) == LET Test(visit) == Moves(visit, cutoff)
                               IN  SelectSeq(history, Test)
            Left(history) == LET Test(visit) == ~Moves(visit, cutoff)
                             IN  SelectSeq(history, Test)
        IN  /\ DOMAIN cfg_patients' = DOMAIN cfg_patients
            /\ \A patient_id \in DOMAIN cfg_patients :
                   /\ HistoryIn(cfg_patients', patient_id)
                          = Left(HistoryIn(cfg_patients, patient_id))
                   /\ BucketIn(cfg_archived', patient_id)
                          = BucketIn(cfg_archived, patient_id)
                                \o Picked(HistoryIn(cfg_patients, patient_id))
            /\ result'.archived_count
                   = SumOver([patient_id \in DOMAIN cfg_patients |->
                                 Len(Picked(HistoryIn(cfg_patients, patient_id)))],
                             DOMAIN cfg_patients)

C9_SecondRunArchivesNothing ==
    result.op = "archive_old_visits"
        => LET r == archive_old_visits(cfg_patients, cfg_archived, result.days, now)
           IN  /\ r.result.archived_count = 0
               /\ r.cfg_patients = cfg_patients
               /\ r.cfg_archived = cfg_archived

\* a first run has just archived visits and left others in visit_history
C9_Witness ==
    /\ result.op = "archive_old_visits"
    /\ result.archived_count = 2
    /\ \E patient_id \in DOMAIN cfg_patients : HistoryIn(cfg_patients, patient_id) # <<>>

\* the number of times the visit occurs in the sequence
Occurrences(seq, visit) == Cardinality({i \in DOMAIN seq : seq[i] = visit})

Entries(seq) == {seq[i] : i \in DOMAIN seq}

\* C10: archive_old_visits neither loses nor duplicates visits: for every
\* patient the entries already in archived_visits[patient_id] stay in place, the
\* newly archived ones come after them, and every visit occurs in visit_history
\* and archived_visits[patient_id] together as often after the run as before.
C10_ArchiveConservesVisits ==
    \A days \in Days :
        LET r == archive_old_visits(cfg_patients, cfg_archived, days, now)
        IN  /\ \A patient_id \in DOMAIN cfg_archived :
                   /\ patient_id \in DOMAIN r.cfg_archived
                   /\ SubSeq(r.cfg_archived[patient_id], 1, Len(cfg_archived[patient_id]))
                          = cfg_archived[patient_id]
            /\ \A patient_id \in DOMAIN cfg_patients :
                   LET before == HistoryIn(cfg_patients, patient_id)
                                     \o BucketIn(cfg_archived, patient_id)
                       after == HistoryIn(r.cfg_patients, patient_id)
                                    \o BucketIn(r.cfg_archived, patient_id)
                   IN  \A visit \in Entries(before) \cup Entries(after) :
                           Occurrences(after, visit) = Occurrences(before, visit)

\* a run has just appended one visit to a bucket that held one already
C10_Witness ==
    /\ result.op = "archive_old_visits"
    /\ result.archived_count = 1
    /\ \E patient_id \in DOMAIN cfg_archived :
           /\ Len(cfg_archived[patient_id]) = 2
           /\ cfg_archived[patient_id][1] = EarlierArchived
           /\ cfg_archived[patient_id][2] # EarlierArchived

(***************************************************************************)
(* PatientManager: update_patient and add_medical_history                  *)
(***************************************************************************)
\* patient.get("created_on") of a record without the key
NoneTime == <<"None", 0>>

\* line 125: the keys update_patient does not take from updated_data
PreservedKeys == {"medical_history", "visit_history", "created_on"}

\* lines 124-126: "for key, value in updated_data.items(): if key not in [...]"
WithoutPreserved(updated_data) ==
    [key \in DOMAIN updated_data \ PreservedKeys |-> updated_data[key]]

\* a faulty loop that copies every key of updated_data and restores nothing
update_patient_CopiesAll(pats, visits, patient_id, updated_data, t) ==
    IF patient_id \notin DOMAIN pats
    THEN Outcome(pats, visits, "update_patient", FALSE, MsgPatientNotFound)
    ELSE Outcome(Put(pats, patient_id,
                     Put(DictUpdate(pats[patient_id], updated_data), "last_updated",
                         IsoString(t))),
                 visits, "update_patient", TRUE, "Patient updated successfully")

update_patient(pats, visits, patient_id, updated_data, t) ==
    IF patient_id \notin DOMAIN pats
    THEN Outcome(pats, visits, "update_patient", FALSE, MsgPatientNotFound)
    ELSE LET patient == pats[patient_id]
             medical_history == Get(patient, "medical_history", <<>>)
             visit_history == Get(patient, "visit_history", <<>>)
             created_on == Get(patient, "created_on", NoneTime)
             p1 == DictUpdate(patient, WithoutPreserved(updated_data))
             p2 == Put(p1, "medical_history", medical_history)
             p3 == Put(p2, "visit_history", visit_history)
             p4 == Put(p3, "created_on", created_on)
             p5 == Put(p4, "last_updated", IsoString(t))
             updated == Put(pats, patient_id, p5)
         IN  \* line 142 formats the message with patient['name']
             IF "name" \notin DOMAIN p5
             THEN Outcome(updated, visits, "update_patient", FALSE, MsgNameKeyError)
             ELSE Outcome(updated, visits, "update_patient", TRUE,
                          "Patient updated successfully")

MsgConditionRequired == "Medical condition is required"

\* lines 318-324
HistoryEntry(medical_data, t) ==
    [date |-> IsoString(t), type |-> Get(medical_data, "type", "condition"),
     condition |-> medical_data["condition"], notes |-> Get(medical_data, "notes", ""),
     treatment |-> Get(medical_data, "treatment", "")]

add_medical_history(pats, visits, patient_id, medical_data, t) ==
    IF patient_id \notin DOMAIN pats
    THEN Outcome(pats, visits, "add_medical_history", FALSE, MsgPatientNotFound)
    ELSE IF ~Truthy(Get(medical_data, "condition", None))
    THEN Outcome(pats, visits, "add_medical_history", FALSE, MsgConditionRequired)
    ELSE LET ready == IF "medical_history" \in DOMAIN pats[patient_id] THEN pats
                      ELSE Put(pats, patient_id, Put(pats[patient_id], "medical_history", <<>>))
         IN  Outcome(AppendTo(ready, patient_id, "medical_history",
                              HistoryEntry(medical_data, t)),
                     visits, "add_medical_history", TRUE, "Medical history added successfully")

(***************************************************************************)
(* The record store: one PatientManager and the archival sweep working on  *)
(* the same configuration, which load_config read with one patient in it.  *)
(***************************************************************************)
\* the longest medical_history a patient gets, and the longest archive bucket
\* a sweep is started with
MaxMedical == 1
MaxArchived == 2

UpdatedDataInputs ==
    {[phone |-> "555-0100"],
     [name |-> "Ann B.", medical_history |-> <<>>, visit_history |-> <<>>,
      created_on |-> IsoString(MaxClock)]}

MedicalDataInputs == {[condition |-> "asthma"], [condition |-> ""], [notes |-> "none"]}

UpdatePatient ==
    \E patient_id \in PatientIds, updated_data \in UpdatedDataInputs :
        DoneVisit(update_patient(patients, active_visits, patient_id, updated_data, now))

AddMedicalHistory ==
    \E patient_id \in PatientIds, medical_data \in MedicalDataInputs :
        /\ Len(MedicalOf(patients, patient_id)) < MaxMedical
        /\ DoneVisit(add_medical_history(patients, active_visits, patient_id, medical_data,
                                         now))

\* the patient record in the loaded document
StoredPatient ==
    [name |-> "Ann", medical_history |-> <<>>, visit_history |-> <<>>,
     created_on |-> IsoString(0)]

\* PatientManager.__init__ takes config["patients"] itself as self.patients
InitStore ==
    /\ cfg_patients = ("P1" :> StoredPatient)
    /\ patients = cfg_patients
    /\ shared = TRUE
    /\ cfg_archived = EmptyDict
    /\ active_visits = EmptyDict
    /\ appointments = EmptyDict
    /\ now = 0
    /\ result = NoCall
    /\ NothingElsewhere
    /\ NoDocuments

\* the sweep, run while no archive bucket is full
ArchiveStoredVisits ==
    /\ \A patient_id \in DOMAIN cfg_archived : Len(cfg_archived[patient_id]) < MaxArchived
    /\ ArchiveOldVisits

NextStore ==
    \/ StartVisit
    \/ EndVisit
    \/ UpdatePatient
    \/ AddMedicalHistory
    \/ ArchiveStoredVisits
    \/ Tick

SpecStore == InitStore /\ [][NextStore]_vars

\* C11: a visit that archive_old_visits moved into archived_visits[patient_id]
\* is never again in that patient's visit_history in the configuration, and
\* is never in the archive bucket twice, whatever the PatientManager and the
\* sweep do afterwards.
C11_ArchivedVisitsStayArchived ==
    \A patient_id \in DOMAIN cfg_archived :
        LET bucket == cfg_archived[patient_id]
            history == VisitsOf(cfg_patients, patient_id)
        IN  \A i \in 1..Len(bucket) :
                /\ \A j \in 1..Len(history) : history[j] # bucket[i]
                /\ \A j \in 1..Len(bucket) : bucket[j] = bucket[i] => j = i

\* C12: update_patient leaves the patient's medical_history, visit_history
\* and created_on as they were, whatever keys updated_data has; of the
\* patient's record only the other supplied fields and last_updated change,
\* and nothing else in the manager changes.
C12_UpdatePatientKeepsHistories ==
    \A patient_id \in DOMAIN patients, updated_data \in UpdatedDataInputs :
        LET r == update_patient(patients, active_visits, patient_id, updated_data, now)
            before == patients[patient_id]
            after == r.patients[patient_id]
            supplied == DOMAIN updated_data \ PreservedKeys
        IN  /\ r.result.ok
            /\ \A key \in PreservedKeys :
                   key \in DOMAIN before => key \in DOMAIN after /\ after[key] = before[key]
            /\ DOMAIN after = DOMAIN before \cup supplied \cup {"last_updated"}
            /\ \A key \in supplied : after[key] = updated_data[key]
            /\ \A key \in DOMAIN before \ (supplied \cup {"last_updated"}) :
                   after[key] = before[key]
            /\ DOMAIN r.patients = DOMAIN patients
            /\ \A other \in DOMAIN patients \ {patient_id} : r.patients[other] = patients[other]
            /\ r.active_visits = active_visits

\* update_patient was given new histories and a new created_on for a patient
\* who has a visit and a medical entry on record, and took the new name only
C12_Witness ==
    /\ result.op = "update_patient"
    /\ result.ok
    /\ "P1" \in DOMAIN patients
    /\ patients["P1"]["name"] = "Ann B."
    /\ Len(patients["P1"]["visit_history"]) > 0
    /\ Len(patients["P1"]["medical_history"]) > 0
    /\ patients["P1"]["created_on"] = IsoString(0)

(***************************************************************************)
(* DocumentsManager and TestResultsManager.  Each method is a function     *)
(* from the collection (and, for documents, the files in the storage       *)
(* directory) and the arguments to the new collection and the returned     *)
(* value.  Two things are not in the caller's hands: what shutil.copy2     *)
(* does with the file, and what save_config returns.                       *)
(***************************************************************************)
\* shutil.copy2 writes the target, or raises before it has created the target
\* (the source cannot be read), or raises with the target created (the disk
\* fills up while it writes, or the file's attributes cannot be set)
CopyOutcomes == {"copied", "failed", "partial"}

\* what the method's own save_data() call returned, which is what save_config
\* returned; a method that returned before the call did not save
NotSaved == "not reached"
SaveResult(save_ok) == IF save_ok THEN "saved" ELSE "save failed"

\* the files a caller attaches, os.path.splitext(path)[1] and os.path.getsize
SourceFiles == {"scan.pdf", "scan.png"}
splitext == ("scan.pdf" :> ".pdf") @@ ("scan.png" :> ".png")
getsize == ("scan.pdf" :> 1) @@ ("scan.png" :> 2)

DocOutcome(meta, fs, op, ok, msg, save) ==
    [documents_metadata |-> meta, files |-> fs,
     result |-> [op |-> op, ok |-> ok, msg |-> msg, save |-> save]]

MsgPatientRequired == "Patient ID is required"
MsgDocumentExists == "Document ID already exists for this patient"
MsgDocumentName == "Document name is required"
MsgDocumentCategory == "Document category is required"
MsgCopyError == "Error copying document file"
MsgUpdateCopyError == "Error updating document file"
MsgNoDocuments == "No documents found for patient ID"
MsgDocumentNotFound == "Document ID not found"

\* lines 76-77 and, in add_test_result, 57-58: the patient's collection is
\* created, empty, before anything about the new entry is looked at
Opened(collection, patient_id) ==
    IF patient_id \in DOMAIN collection THEN collection
    ELSE Put(collection, patient_id, EmptyDict)

\* collection[patient_id][id] = data
PutEntry(collection, patient_id, id, data) ==
    Put(collection, patient_id, Put(Get(collection, patient_id, EmptyDict), id, data))

\* lines 96-99: f"{document_id}{file_ext}"
TargetFileName(document_id, file_path) == document_id \o splitext[file_path]

\* lines 111-113
WithFileInfo(data, document_id, file_path) ==
    LET d1 == Put(data, "file_name", TargetFileName(document_id, file_path))
        d2 == Put(d1, "file_extension", splitext[file_path])
    IN  Put(d2, "file_size", getsize[file_path])

\* a faulty add_document that records the document whatever the copy did
add_document_IgnoresCopy(meta, fs, patient_id, document_data, file_path, uuid, copy, save_ok) ==
    LET document_id == Get(document_data, "id", uuid)
        stamped == Put(document_data, "created_on", Stamp)
        data == IF Truthy(file_path) THEN WithFileInfo(stamped, document_id, file_path)
                ELSE stamped
        stored == IF Truthy(file_path) /\ copy # "failed"
                  THEN fs \cup {<<patient_id, TargetFileName(document_id, file_path)>>}
                  ELSE fs
    IN  IF ~Truthy(patient_id) \/ document_id \in DOMAIN Get(meta, patient_id, EmptyDict)
           \/ ~Truthy(Get(document_data, "name", None))
           \/ ~Truthy(Get(document_data, "category", None))
        THEN DocOutcome(meta, fs, "add_document", FALSE, MsgDocumentName, NotSaved)
        ELSE DocOutcome(PutEntry(meta, patient_id, document_id, data), stored, "add_document",
                        Truthy(file_path) => copy = "copied",
                        IF Truthy(file_path) /\ copy # "copied" THEN MsgCopyError
                        ELSE "Document added successfully",
                        SaveResult(save_ok))

add_document(meta, fs, patient_id, document_data, file_path, uuid, copy, save_ok) ==
    IF ~Truthy(patient_id)
    THEN DocOutcome(meta, fs, "add_document", FALSE, MsgPatientRequired, NotSaved)
    ELSE LET document_id == Get(document_data, "id", uuid)
             opened == Opened(meta, patient_id)
             stamped == Put(document_data, "created_on", Stamp)
         IN  IF document_id \in DOMAIN opened[patient_id]
             THEN DocOutcome(opened, fs, "add_document", FALSE, MsgDocumentExists, NotSaved)
             ELSE IF ~Truthy(Get(document_data, "name", None))
             THEN DocOutcome(opened, fs, "add_document", FALSE, MsgDocumentName, NotSaved)
             ELSE IF ~Truthy(Get(document_data, "category", None))
             THEN DocOutcome(opened, fs, "add_document", FALSE, MsgDocumentCategory, NotSaved)
             ELSE IF ~Truthy(file_path)
             THEN DocOutcome(PutEntry(opened, patient_id, document_id, stamped), fs,
                             "add_document", TRUE, "Document added successfully",
                             SaveResult(save_ok))
             ELSE LET target == <<patient_id, TargetFileName(document_id, file_path)>>
                  IN  IF copy = "failed"
                      THEN DocOutcome(opened, fs, "add_document", FALSE, MsgCopyError, NotSaved)
                      ELSE IF copy = "partial"
                      THEN DocOutcome(opened, fs \cup {target}, "add_document", FALSE,
                                      MsgCopyError, NotSaved)
                      ELSE DocOutcome(PutEntry(opened, patient_id, document_id,
                                               WithFileInfo(stamped, document_id, file_path)),
                                      fs \cup {target}, "add_document", TRUE,
                                      "Document added successfully", SaveResult(save_ok))

update_document(meta, fs, patient_id, document_id, updated_data, new_file_path, copy, save_ok) ==
    IF patient_id \notin DOMAIN meta
    THEN DocOutcome(meta, fs, "update_document", FALSE, MsgNoDocuments, NotSaved)
    ELSE IF document_id \notin DOMAIN meta[patient_id]
    THEN DocOutcome(meta, fs, "update_document", FALSE, MsgDocumentNotFound, NotSaved)
    ELSE LET document == meta[patient_id][document_id]
             stamp(d) == Put(d, "last_updated", Stamp)
         IN  IF ~Truthy(new_file_path)
             THEN DocOutcome(PutEntry(meta, patient_id, document_id,
                                      stamp(DictUpdate(document, updated_data))),
                             fs, "update_document", TRUE, "Document updated successfully",
                             SaveResult(save_ok))
             ELSE LET target_file_name == TargetFileName(document_id, new_file_path)
                      old_file_name == Get(document, "file_name", None)
                      \* lines 163-167: the old file goes before the new one is copied
                      cleared == IF Truthy(old_file_name) /\ old_file_name # target_file_name
                                 THEN fs \ {<<patient_id, old_file_name>>}
                                 ELSE fs
                      target == <<patient_id, target_file_name>>
                  IN  IF copy = "failed"
                      THEN DocOutcome(meta, cleared, "update_document", FALSE,
                                      MsgUpdateCopyError, NotSaved)
                      ELSE IF copy = "partial"
                      THEN DocOutcome(meta, cleared \cup {target}, "update_document", FALSE,
                                      MsgUpdateCopyError, NotSaved)
                      ELSE DocOutcome(PutEntry(meta, patient_id, document_id,
                                               stamp(DictUpdate(document,
                                                                WithFileInfo(updated_data,
                                                                             document_id,
                                                                             new_file_path)))),
                                      cleared \cup {target}, "update_document", TRUE,
                                      "Document updated successfully", SaveResult(save_ok))

\* "del collection[patient_id][id]", and the patient's key with it when that
\* leaves the patient's collection empty
DelEntry(collection, patient_id, id) ==
    LET rest == Del(collection[patient_id], id)
    IN  IF DOMAIN rest = {} THEN Del(collection, patient_id)
        ELSE Put(collection, patient_id, rest)

delete_document(meta, fs, patient_id, document_id, save_ok) ==
    IF patient_id \notin DOMAIN meta
    THEN DocOutcome(meta, fs, "delete_document", FALSE, MsgNoDocuments, NotSaved)
    ELSE IF document_id \notin DOMAIN meta[patient_id]
    THEN DocOutcome(meta, fs, "delete_document", FALSE, MsgDocumentNotFound, NotSaved)
    ELSE LET file_name == Get(meta[patient_id][document_id], "file_name", None)
             removed == IF Truthy(file_name) THEN fs \ {<<patient_id, file_name>>} ELSE fs
         IN  DocOutcome(DelEntry(meta, patient_id, document_id), removed, "delete_document",
                        TRUE, "Document deleted successfully", SaveResult(save_ok))

TestOutcome(results, op, ok, msg, save) ==
    [test_results |-> results, result |-> [op |-> op, ok |-> ok, msg |-> msg, save |-> save]]

MsgResultExists == "Test result ID already exists for this patient"
MsgTestName == "Test name is required"
MsgTestDate == "Test date is required"
MsgNoResults == "No test results found for patient ID"
MsgResultNotFound == "Test result ID not found"

\* a faulty add_test_result that does not look for the ID first
add_test_result_Overwrites(results, patient_id, result_data, uuid, save_ok) ==
    IF ~Truthy(patient_id)
    THEN TestOutcome(results, "add_test_result", FALSE, MsgPatientRequired, NotSaved)
    ELSE IF ~Truthy(Get(result_data, "test_name", None))
    THEN TestOutcome(results, "add_test_result", FALSE, MsgTestName, NotSaved)
    ELSE IF ~Truthy(Get(result_data, "test_date", None))
    THEN TestOutcome(results, "add_test_result", FALSE, MsgTestDate, NotSaved)
    ELSE TestOutcome(PutEntry(results, patient_id, Get(result_data, "id", uuid),
                              Put(result_data, "created_on", Stamp)),
                     "add_test_result", TRUE, "Test result added successfully",
                     SaveResult(save_ok))

add_test_result(results, patient_id, result_data, uuid, save_ok) ==
    IF ~Truthy(patient_id)
    THEN TestOutcome(results, "add_test_result", FALSE, MsgPatientRequired, NotSaved)
    ELSE LET result_id == Get(result_data, "id", uuid)
             opened == Opened(results, patient_id)
         IN  IF result_id \in DOMAIN opened[patient_id]
             THEN TestOutcome(opened, "add_test_result", FALSE, MsgResultExists, NotSaved)
             ELSE IF ~Truthy(Get(result_data, "test_name", None))
             THEN TestOutcome(opened, "add_test_result", FALSE, MsgTestName, NotSaved)
             ELSE IF ~Truthy(Get(result_data, "test_date", None))
             THEN TestOutcome(opened, "add_test_result", FALSE, MsgTestDate, NotSaved)
             ELSE TestOutcome(PutEntry(opened, patient_id, result_id,
                                       Put(result_data, "created_on", Stamp)),
                              "add_test_result", TRUE, "Test result added successfully",
                              SaveResult(save_ok))

delete_test_result(results, patient_id, result_id, save_ok) ==
    IF patient_id \notin DOMAIN results
    THEN TestOutcome(results, "delete_test_result", FALSE, MsgNoResults, NotSaved)
    ELSE IF result_id \notin DOMAIN results[patient_id]
    THEN TestOutcome(results, "delete_test_result", FALSE, MsgResultNotFound, NotSaved)
    ELSE TestOutcome(DelEntry(results, patient_id, result_id), "delete_test_result", TRUE,
                     "Test result deleted successfully", SaveResult(save_ok))

(***************************************************************************)
(* The document and test-result stores as a state machine                  *)
(***************************************************************************)
\* the most documents, and the most test results, one patient has at once
MaxDocuments == 2
MaxResults == 1

\* the patient IDs callers pass; the managers do not look the patient up
StorePatients == {"P1", ""}

DocumentIds == {"d1", "uuid-1"}

DocumentInputs ==
    OptionalKey([name |-> "X-ray", category |-> "Imaging"], "id", {"d1"})
        \cup {[category |-> "Imaging"], [name |-> "X-ray", category |-> ""]}

DocumentUpdates == {[description |-> "left arm"]}

FilePaths == SourceFiles \cup {None}

ResultIds == {"r1", "uuid-1"}

ResultInputs ==
    OptionalKey([test_name |-> "Glucose", test_date |-> "2025-01-10", value |-> "142"],
                "id", {"r1"})
        \cup {[test_date |-> "2025-01-10"], [id |-> "r1", test_name |-> "Glucose"]}

\* the IDs in use in a patient's collection
IdsOf(collection, patient_id) == DOMAIN Get(collection, patient_id, EmptyDict)

ManagersIdle ==
    /\ UNCHANGED <<appointments, patients, active_visits, cfg_patients, cfg_archived, shared,
                   now>>
    /\ ElsewhereIdle

DoneDocument(r) ==
    /\ documents_metadata' = r.documents_metadata
    /\ files' = r.files
    /\ result' = r.result
    /\ UNCHANGED test_results
    /\ ManagersIdle

DoneTest(r) ==
    /\ test_results' = r.test_results
    /\ result' = r.result
    /\ UNCHANGED <<documents_metadata, files>>
    /\ ManagersIdle

AddDocument ==
    \E patient_id \in StorePatients, document_data \in DocumentInputs, file_path \in FilePaths,
       uuid \in UuidPool, copy \in CopyOutcomes, save_ok \in BOOLEAN :
        /\ Cardinality(IdsOf(documents_metadata, patient_id)) < MaxDocuments
        /\ "id" \in DOMAIN document_data \/ uuid \notin IdsOf(documents_metadata, patient_id)
        /\ DoneDocument(add_document(documents_metadata, files, patient_id, document_data,
                                     file_path, uuid, copy, save_ok))

UpdateDocument ==
    \E patient_id \in StorePatients, document_id \in DocumentIds,
       updated_data \in DocumentUpdates, new_file_path \in FilePaths,
       copy \in CopyOutcomes, save_ok \in BOOLEAN :
        DoneDocument(update_document(documents_metadata, files, patient_id, document_id,
                                     updated_data, new_file_path, copy, save_ok))

DeleteDocument ==
    \E patient_id \in StorePatients, document_id \in DocumentIds, save_ok \in BOOLEAN :
        DoneDocument(delete_document(documents_metadata, files, patient_id, document_id,
                                     save_ok))

AddTestResult ==
    \E patient_id \in StorePatients, result_data \in ResultInputs, uuid \in UuidPool,
       save_ok \in BOOLEAN :
        /\ Cardinality(IdsOf(test_results, patient_id)) < MaxResults
        /\ "id" \in DOMAIN result_data \/ uuid \notin IdsOf(test_results, patient_id)
        /\ DoneTest(add_test_result(test_results, patient_id, result_data, uuid, save_ok))

DeleteTestResult ==
    \E patient_id \in StorePatients, result_id \in ResultIds, save_ok \in BOOLEAN :
        DoneTest(delete_test_result(test_results, patient_id, result_id, save_ok))

NextDocuments ==
    \/ AddDocument
    \/ UpdateDocument
    \/ DeleteDocument
    \/ AddTestResult
    \/ DeleteTestResult

SpecDocuments == Init /\ [][NextDocuments]_vars

\* C13: a failed add_document leaves documents_metadata, and a failed
\* add_test_result leaves test_results, exactly as before the call; it does
\* not create an empty collection for a patient who had none.
C13_FailedAddChangesNothing ==
    [][/\ (result'.op = "add_document" /\ ~result'.ok
              => documents_metadata' = documents_metadata)
       /\ (result'.op = "add_test_result" /\ ~result'.ok
              => test_results' = test_results)]_vars

\* the file is the backing file of one of the patient's metadata entries
IsBackingFile(meta, file) ==
    \E document_id \in IdsOf(meta, file[1]) :
        Get(meta[file[1]][document_id], "file_name", None) = file[2]

\* C14: no orphaned files: in every state reached by add_document,
\* update_document and delete_document, every file in a patient's storage
\* directory is the file_name of one of that patient's metadata entries.
C14_NoOrphanedFiles == \A file \in files : IsBackingFile(documents_metadata, file)

\* C15: when the copy of the source file fails during add_document, the call
\* returns failure and writes no metadata entry (no patient gains or loses a
\* document ID and no stored entry changes); and an entry that add_document
\* does write with a file_name names a file that is in the patient's
\* storage directory.
C15_FailedCopyWritesNoMetadata ==
    [][result'.op = "add_document" =>
          /\ result'.msg = MsgCopyError =>
                 /\ ~result'.ok
                 /\ \A patient_id \in DOMAIN documents_metadata' :
                        /\ IdsOf(documents_metadata', patient_id)
                               = IdsOf(documents_metadata, patient_id)
                        /\ \A document_id \in IdsOf(documents_metadata, patient_id) :
                               documents_metadata'[patient_id][document_id]
                                   = documents_metadata[patient_id][document_id]
          /\ \A patient_id \in DOMAIN documents_metadata' :
                 \A document_id \in IdsOf(documents_metadata', patient_id)
                                        \ IdsOf(documents_metadata, patient_id) :
                     LET document == documents_metadata'[patient_id][document_id]
                     IN  "file_name" \in DOMAIN document
                             => <<patient_id, document["file_name"]>> \in files']_vars

\* a copy has just failed for a patient who has a document with a file on record
C15_Witness ==
    /\ result.op = "add_document"
    /\ result.msg = MsgCopyError
    /\ \E document_id \in IdsOf(documents_metadata, "P1") :
           "file_name" \in DOMAIN documents_metadata["P1"][document_id]

\* C16: when save_config returns False, the mutating operation whose
\* save_data() call it served reports failure to its caller.
C16_SaveFailureIsReported ==
    "save" \in DOMAIN result /\ result.save = SaveResult(FALSE) => ~result.ok

(***************************************************************************)
(* Adding under an ID that is in use: the three stores as load_config      *)
(* found them, and every add called with an ID taken from the store.       *)
(***************************************************************************)
LoadedDocuments ==
    {("P1" :> ("d1" :> d)) :
        d \in {[id |-> "d1", name |-> "Referral", category |-> "Letters", created_on |-> Stamp],
               [id |-> "d1", name |-> "Referral", category |-> "Letters", created_on |-> Stamp,
                file_name |-> "d1.pdf", file_extension |-> ".pdf", file_size |-> 1]}}

LoadedResults ==
    {("P1" :> ("r1" :> [id |-> "r1", test_name |-> "HbA1c", test_date |-> "2024-12-01",
                        value |-> "6.1", created_on |-> Stamp]))}

InitDuplicates ==
    /\ appointments \in LoadedCollections
    /\ documents_metadata \in LoadedDocuments
    /\ files = {<<"P1", documents_metadata["P1"][document_id]["file_name"]>> :
                   document_id \in {d \in IdsOf(documents_metadata, "P1") :
                                       "file_name" \in DOMAIN documents_metadata["P1"][d]}}
    /\ test_results \in LoadedResults
    /\ patients = EmptyDict
    /\ active_visits = EmptyDict
    /\ cfg_patients = EmptyDict
    /\ cfg_archived = EmptyDict
    /\ shared = TRUE
    /\ now = 0
    /\ result = NoCall
    /\ NothingElsewhere

ReAddAppointment ==
    \E appointment_id \in DOMAIN appointments,
       appointment_data \in WellFormedData \cup MalformedData, uuid \in UuidPool :
        Done(add_appointment(appointments, Put(appointment_data, "id", appointment_id), uuid))

ReAddDocument ==
    \E patient_id \in DOMAIN documents_metadata, document_data \in DocumentInputs,
       file_path \in FilePaths, uuid \in UuidPool, copy \in CopyOutcomes, save_ok \in BOOLEAN :
        \E document_id \in IdsOf(documents_metadata, patient_id) :
            DoneDocument(add_document(documents_metadata, files, patient_id,
                                      Put(document_data, "id", document_id), file_path, uuid,
                                      copy, save_ok))

ReAddTestResult ==
    \E patient_id \in DOMAIN test_results, result_data \in ResultInputs, uuid \in UuidPool,
       save_ok \in BOOLEAN :
        \E result_id \in IdsOf(test_results, patient_id) :
            DoneTest(add_test_result(test_results, patient_id,
                                     Put(result_data, "id", result_id), uuid, save_ok))

NextDuplicates ==
    \/ ReAddAppointment
    \/ ReAddDocument
    \/ ReAddTestResult

SpecDuplicates == InitDuplicates /\ [][NextDuplicates]_vars

\* C17: an add called with an ID that is in use (an appointment ID; a document
\* or test-result ID of the same patient) returns failure with the "already
\* exists" message and leaves every stored record, and every stored file, as
\* it was.
C17_DuplicateIdRefused ==
    [][/\ ~result'.ok
       /\ result'.op = "add_appointment" => result'.msg = MsgExists
       /\ result'.op = "add_document" => result'.msg = MsgDocumentExists
       /\ result'.op = "add_test_result" => result'.msg = MsgResultExists
       /\ appointments' = appointments
       /\ documents_metadata' = documents_metadata
       /\ files' = files
       /\ test_results' = test_results]_vars

\* each of the three adds has been refused for an ID in use
C17_Witness ==
    /\ result.msg \in {MsgExists, MsgDocumentExists, MsgResultExists}
    /\ appointments # EmptyDict
    /\ ~result.ok

(***************************************************************************)
(* The scheduler's handling of appointment IDs                             *)
(***************************************************************************)
\* the call failed with the not-found message and returned the collection as it was
NotFoundAndUntouched(r) ==
    /\ ~r.result.ok
    /\ r.result.msg = MsgNotFound
    /\ r.appointments = appointments

\* C18: update_appointment, delete_appointment, mark_appointment_completed
\* and mark_appointment_cancelled called with an ID that is not in the
\* collection return failure and leave the collection unchanged;
\* delete_appointment with a stored ID removes that appointment and no other.
C18_UnknownIdRefusedDeleteExact ==
    \A appointment_id \in AppointmentIds :
        IF appointment_id \notin DOMAIN appointments
        THEN /\ \A updated_data \in UpdateInputs :
                    NotFoundAndUntouched(update_appointment(appointments, appointment_id,
                                                            updated_data))
             /\ NotFoundAndUntouched(delete_appointment(appointments, appointment_id))
             /\ \A text \in Annotations \cup {"done"} :
                    /\ NotFoundAndUntouched(mark_appointment_completed(appointments,
                                                                       appointment_id, text))
                    /\ NotFoundAndUntouched(mark_appointment_cancelled(appointments,
                                                                       appointment_id, text))
        ELSE LET r == delete_appointment(appointments, appointment_id)
             IN  /\ r.result.ok
                 /\ DOMAIN r.appointments = DOMAIN appointments \ {appointment_id}
                 /\ \A other \in DOMAIN r.appointments :
                        r.appointments[other] = appointments[other]

\* delete_appointment has just removed one of two stored appointments
C18_Witness ==
    /\ result.op = "delete_appointment"
    /\ result.ok
    /\ Cardinality(DOMAIN appointments) = MaxAppointments - 1
    /\ \E appointment_id \in AppointmentIds : appointment_id \notin DOMAIN appointments

(***************************************************************************)
(* Saving the record store and loading it again: the managers' save_data,  *)
(* save_config's json.dump, load_config's json.load and the managers'      *)
(* initialisation.  JSON keeps strings, numbers, lists and dicts with      *)
(* string keys as they are; a datetime object is written as text.          *)
(***************************************************************************)
\* a clock reading counts units of which UnitsPerSecond make a second
UnitsPerSecond == 2

\* datetime.strftime("%Y-%m-%d %H:%M:%S"): the text has no fraction of a second
strftime(v) == <<"strftime", v[2] - (v[2] % UnitsPerSecond)>>

\* datetime.strptime(text, "%Y-%m-%d %H:%M:%S") of a text in that format
strptime(v) == DateTimeObj(v[2])

\* patient_manager.py lines 59-64: the copy of active_visits that goes into the
\* configuration, start_time as text
visits_copy(visits) ==
    [patient_id \in DOMAIN visits |->
        LET visit_data == visits[patient_id]
        IN  IF "start_time" \in DOMAIN visit_data /\ IsDateTimeObj(visit_data["start_time"])
            THEN Put(visit_data, "start_time", strftime(visit_data["start_time"]))
            ELSE visit_data]

\* config_manager.py lines 127-132: what json.dump writes for a time value
DateTimeEncoder(v) == IF IsDateTimeObj(v) THEN strftime(v) ELSE v

\* json.dump then json.load of a dict of dicts, of which the values under the
\* keys in time_keys may be datetime objects
JsonRoundTrip(collection, time_keys) ==
    [id \in DOMAIN collection |->
        [key \in DOMAIN collection[id] |->
            IF key \in time_keys THEN DateTimeEncoder(collection[id][key])
            ELSE collection[id][key]]]

\* patient_manager.py lines 41-50: the loaded active_visits, start_time parsed;
\* a text in another format becomes the time of loading
initialize_visits(visits, t) ==
    [patient_id \in DOMAIN visits |->
        LET visit_data == visits[patient_id]
        IN  IF "start_time" \in DOMAIN visit_data /\ ~IsDateTimeObj(visit_data["start_time"])
            THEN Put(visit_data, "start_time",
                     IF visit_data["start_time"][1] = "strftime"
                     THEN strptime(visit_data["start_time"])
                     ELSE DateTimeObj(t))
            ELSE visit_data]

\* a store that holds one patient, active visit, appointment, test result,
\* document and archived visit
StoredVisits ==
    {("P1" :> NewVisit(visit_data, t)) : visit_data \in VisitDataInputs, t \in 0..MaxClock}

InitRoundTrip ==
    /\ patients \in {("P1" :> StoredPatient),
                     ("P1" :> Put(StoredPatient, "visit_history", <<EarlierArchived>>))}
    /\ cfg_patients = patients
    /\ shared = FALSE
    /\ active_visits \in StoredVisits
    /\ appointments \in {c \in LoadedCollections : Cardinality(DOMAIN c) = 1}
    /\ documents_metadata \in LoadedDocuments
    /\ files = {}
    /\ test_results \in LoadedResults
    /\ cfg_archived = ("P1" :> <<EarlierArchived>>)
    /\ now = 0
    /\ result = NoCall
    /\ NothingElsewhere

\* every manager saves, the program ends, and a new ConfigManager and new
\* managers are built from the file
SaveAndLoad ==
    /\ patients' = JsonRoundTrip(patients, {"created_on"})
    /\ cfg_patients' = patients'
    /\ shared' = TRUE
    /\ active_visits' = initialize_visits(JsonRoundTrip(visits_copy(active_visits),
                                                        {"start_time"}), now)
    /\ appointments' = JsonRoundTrip(appointments, {})
    /\ documents_metadata' =
           [patient_id \in DOMAIN documents_metadata |->
               JsonRoundTrip(documents_metadata[patient_id], {})]
    /\ test_results' =
           [patient_id \in DOMAIN test_results |-> JsonRoundTrip(test_results[patient_id], {})]
    /\ cfg_archived' = cfg_archived
    /\ result' = [op |-> "load_config", ok |-> TRUE, msg |-> ""]
    /\ UNCHANGED <<files, now>>
    /\ ElsewhereIdle

NextRoundTrip ==
    \/ SaveAndLoad
    \/ Tick

SpecRoundTrip == InitRoundTrip /\ [][NextRoundTrip]_vars

\* C19: saving the record store and loading it again yields collections with
\* the same keys and the same values as before the save.
C19_RoundTrip ==
    [][result'.op = "load_config" =>
          /\ patients' = patients
          /\ active_visits' = active_visits
          /\ appointments' = appointments
          /\ test_results' = test_results
          /\ documents_metadata' = documents_metadata
          /\ cfg_archived' = cfg_archived]_vars

(***************************************************************************)
(* Numeric trend of one test type: get_numerical_test_results              *)
(***************************************************************************)
MaxTrend == 2

ResultNames == <<"r1", "r2", "r3">>
TrendIds == {ResultNames[i] : i \in 1..MaxTrend}
TestTypes == {"Glucose", "HbA1c"}

\* datetime.datetime.fromisoformat of a test date: the day it falls on and
\* whether the text carries a UTC offset; any other text raises ValueError
IsoDates ==
    ("2025-01-10" :> [day |-> 10, tzinfo |-> None]) @@
    ("2025-02-01" :> [day |-> 32, tzinfo |-> None]) @@
    ("2025-01-15T08:00:00+00:00" :> [day |-> 15, tzinfo |-> "UTC"])

\* the test dates in use, in the order str comparison puts them
TextOrder == <<"", "2025-01-10", "2025-01-15T08:00:00+00:00", "2025-02-01", "soon">>
TextRank(s) == CHOOSE i \in 1..Len(TextOrder) : TextOrder[i] = s

\* float(value) of the texts it accepts; any other text raises ValueError
Floats == ("142" :> 142) @@ ("98" :> 98)

\* list.sort(key=...) is stable: an item goes behind the items whose key is
\* not greater than its own; pairs are <<key, item>>
InsertByKey(sorted, pair) ==
    LET k == Cardinality({i \in 1..Len(sorted) : sorted[i][1] <= pair[1]})
    IN  SubSeq(sorted, 1, k) \o <<pair>> \o SubSeq(sorted, k + 1, Len(sorted))

RECURSIVE sort(_)
sort(pairs) ==
    IF pairs = <<>>
    THEN <<>>
    ELSE InsertByKey(sort(SubSeq(pairs, 1, Len(pairs) - 1)), pairs[Len(pairs)])

Items(pairs) == [i \in 1..Len(pairs) |-> pairs[i][2]]

\* items is the order in which the patient's dict yields its result IDs;
\* sort(..., reverse=True) on the test_date text, newest first
get_patient_test_results(results, patient_id, items) ==
    IF patient_id \notin DOMAIN results
    THEN <<>>
    ELSE LET result_with_id ==
                 [i \in 1..Len(items) |-> Put(results[patient_id][items[i]], "id", items[i])]
         IN  Items(sort([i \in 1..Len(items) |->
                            <<0 - TextRank(Get(result_with_id[i], "test_date", "")),
                              result_with_id[i]>>]))

get_test_results_by_type(results, patient_id, test_type, items) ==
    SelectSeq(get_patient_test_results(results, patient_id, items),
              LAMBDA r : Get(r, "test_name", None) = test_type)

MsgNaiveAware == "TypeError: can't compare offset-naive and offset-aware datetimes"

TrendOutcome(patient_id, test_type, ok, msg, points) ==
    [op |-> "get_numerical_test_results", ok |-> ok, msg |-> msg,
     patient_id |-> patient_id, test_type |-> test_type, points |-> points]

\* both conversions sit in a try whose except passes
IsDataPoint(r) ==
    /\ Get(r, "value", None) # None
    /\ r["value"] \in DOMAIN Floats
    /\ Truthy(Get(r, "test_date", ""))
    /\ r["test_date"] \in DOMAIN IsoDates

DataPoint(r) ==
    [date |-> IsoDates[r["test_date"]], value |-> Floats[r["value"]],
     unit |-> Get(r, "unit", ""), reference_range |-> Get(r, "reference_range", ""),
     id |-> Get(r, "id", "")]

\* the closing sort compares datetime objects outside any try: a date with a
\* UTC offset next to one without raises TypeError out of the call
get_numerical_test_results(results, patient_id, test_type, items) ==
    LET kept == SelectSeq(get_test_results_by_type(results, patient_id, test_type, items),
                          IsDataPoint)
        numerical_results == [i \in 1..Len(kept) |-> DataPoint(kept[i])]
        offsets == {numerical_results[i].date.tzinfo : i \in 1..Len(kept)}
    IN  IF Cardinality(offsets) > 1
        THEN TrendOutcome(patient_id, test_type, FALSE, MsgNaiveAware, <<>>)
        ELSE TrendOutcome(patient_id, test_type, TRUE, "",
                          Items(sort([i \in 1..Len(kept) |->
                                         <<numerical_results[i].date.day,
                                           numerical_results[i]>>])))

\* the results add_test_result stores: test_name and test_date are required
\* and non-empty, value is free text or absent
TrendRecords ==
    {Put(r, "created_on", Stamp) :
        r \in UNION {OptionalKey(d, "value", {"142", "98", "pending"}) :
                        d \in [test_name : TestTypes,
                               test_date : DOMAIN IsoDates \cup {"soon"}]}}

TrendStores ==
    {EmptyDict} \cup
        {("P1" :> d) : d \in UNION {[S -> TrendRecords] : S \in SUBSET TrendIds}}

InsertionOrders(S) ==
    {s \in [1..Cardinality(S) -> S] : \A id \in S : \E i \in 1..Cardinality(S) : s[i] = id}

InitTrend ==
    /\ test_results \in TrendStores
    /\ appointments = EmptyDict
    /\ patients = EmptyDict
    /\ active_visits = EmptyDict
    /\ cfg_patients = EmptyDict
    /\ cfg_archived = EmptyDict
    /\ shared = TRUE
    /\ documents_metadata = EmptyDict
    /\ files = {}
    /\ now = 0
    /\ result = NoCall
    /\ NothingElsewhere

GetNumericalTestResults ==
    \E patient_id \in {"P1", "P2"}, test_type \in TestTypes :
        \E items \in InsertionOrders(IdsOf(test_results, patient_id)) :
            /\ result' = get_numerical_test_results(test_results, patient_id, test_type, items)
            /\ UNCHANGED <<appointments, patients, active_visits, cfg_patients, cfg_archived,
                           shared, documents_metadata, files, test_results, now>>
            /\ ElsewhereIdle

NextTrend == GetNumericalTestResults

SpecTrend == InitTrend /\ [][NextTrend]_vars

\* the results of a patient and type whose value is a number and whose
\* test_date is a date
Trended(patient_id, test_type) ==
    {id \in IdsOf(test_results, patient_id) :
        LET r == test_results[patient_id][id]
        IN  /\ Get(r, "test_name", None) = test_type
            /\ Get(r, "value", None) \in DOMAIN Floats
            /\ Get(r, "test_date", "") \in DOMAIN IsoDates}

\* C20: get_numerical_test_results does not fail and returns one data point
\* for exactly the results of the patient and type whose value parses as a
\* number and whose test_date parses as a date, in ascending date order.
C20_NumericalTrend ==
    result.op = "get_numerical_test_results" =>
        /\ result.ok
        /\ Len(result.points) = Cardinality(Trended(result.patient_id, result.test_type))
        /\ {result.points[i].id : i \in 1..Len(result.points)}
               = Trended(result.patient_id, result.test_type)
        /\ \A i \in 1..Len(result.points) :
               LET r == test_results[result.patient_id][result.points[i].id]
               IN  /\ result.points[i].value = Floats[r["value"]]
                   /\ result.points[i].date = IsoDates[r["test_date"]]
        /\ \A i, j \in 1..Len(result.points) :
               i < j => result.points[i].date.day <= result.points[j].date.day

(***************************************************************************)
(* Appointment queries by date: get_appointments_for_date and              *)
(* get_appointments_in_range                                               *)
(***************************************************************************)
MaxScheduled == 2

ScheduledNames == <<"a1", "a2", "a3">>
ScheduledIds == {ScheduledNames[i] : i \in 1..MaxScheduled}

\* datetime.datetime.fromisoformat of a stored datetime: the day of January
\* 2025 and the minute of that day; the separator may be "T" or a space;
\* any other text raises ValueError
IsoDateTimes ==
    ("2025-01-10T09:00" :> [day |-> 10, minute |-> 540]) @@
    ("2025-01-10 09:30" :> [day |-> 10, minute |-> 570]) @@
    ("2025-01-11T08:00" :> [day |-> 11, minute |-> 480])

\* the datetime texts in use, in the order str comparison puts them
DateTimeOrder ==
    <<"", "2025-01-10 09:30", "2025-01-10T09:00", "2025-01-11T08:00", "not-a-date">>
DateTimeRank(s) == CHOOSE i \in 1..Len(DateTimeOrder) : DateTimeOrder[i] = s

QueryOutcome(op, start, end, found) ==
    [op |-> op, ok |-> TRUE, msg |-> "", start |-> start, end |-> end, found |-> found]

\* items is the order in which self.appointments yields its IDs; an
\* appointment whose datetime does not parse is skipped by the except;
\* the closing sort is on the datetime text
InRange(appts, start, end, items) ==
    LET kept == SelectSeq(items,
                    LAMBDA id : /\ Get(appts[id], "datetime", "") \in DOMAIN IsoDateTimes
                                /\ start <= IsoDateTimes[appts[id]["datetime"]].day
                                /\ IsoDateTimes[appts[id]["datetime"]].day <= end)
    IN  Items(sort([i \in 1..Len(kept) |->
                       <<DateTimeRank(Get(appts[kept[i]], "datetime", "")),
                         Put(appts[kept[i]], "id", kept[i])>>]))

get_appointments_for_date(appts, date, items) ==
    QueryOutcome("get_appointments_for_date", date, date, InRange(appts, date, date, items))

get_appointments_in_range(appts, start_date, end_date, items) ==
    QueryOutcome("get_appointments_in_range", start_date, end_date,
                 InRange(appts, start_date, end_date, items))

QueryDays == 9..12

\* stored appointments: a loaded file may hold a datetime that does not parse
ScheduledRecords ==
    {NewAppointment([patient_id |-> "P1", doctor |-> "Dr. Smith", datetime |-> dt]) :
        dt \in DOMAIN IsoDateTimes \cup {"not-a-date"}}

InitScheduled ==
    /\ appointments \in UNION {[S -> ScheduledRecords] : S \in SUBSET ScheduledIds}
    /\ patients = EmptyDict
    /\ active_visits = EmptyDict
    /\ cfg_patients = EmptyDict
    /\ cfg_archived = EmptyDict
    /\ shared = TRUE
    /\ now = 0
    /\ result = NoCall
    /\ NothingElsewhere
    /\ NoDocuments

QueryIdle ==
    /\ UNCHANGED <<appointments, patients, active_visits, cfg_patients, cfg_archived, shared,
                   documents_metadata, files, test_results, now>>
    /\ ElsewhereIdle

GetAppointmentsForDate ==
    \E date \in QueryDays, items \in InsertionOrders(DOMAIN appointments) :
        /\ result' = get_appointments_for_date(appointments, date, items)
        /\ QueryIdle

GetAppointmentsInRange ==
    \E start_date \in QueryDays, end_date \in QueryDays,
       items \in InsertionOrders(DOMAIN appointments) :
        /\ result' = get_appointments_in_range(appointments, start_date, end_date, items)
        /\ QueryIdle

NextScheduled ==
    \/ GetAppointmentsForDate
    \/ GetAppointmentsInRange

SpecScheduled == InitScheduled /\ [][NextScheduled]_vars

\* the stored appointments whose datetime parses and whose date lies in the range
Scheduled(start, end) ==
    {id \in DOMAIN appointments :
        /\ Get(appointments[id], "datetime", "") \in DOMAIN IsoDateTimes
        /\ start <= IsoDateTimes[appointments[id]["datetime"]].day
        /\ IsoDateTimes[appointments[id]["datetime"]].day <= end}

Earlier(a, b) ==
    \/ IsoDateTimes[a["datetime"]].day < IsoDateTimes[b["datetime"]].day
    \/ /\ IsoDateTimes[a["datetime"]].day = IsoDateTimes[b["datetime"]].day
       /\ IsoDateTimes[a["datetime"]].minute < IsoDateTimes[b["datetime"]].minute

\* C21: get_appointments_for_date and get_appointments_in_range return, each
\* once and in ascending chronological order, exactly the stored appointments
\* whose datetime parses and whose date lies in the queried range.
C21_QueriesChronological ==
    result.op \in {"get_appointments_for_date", "get_appointments_in_range"} =>
        /\ result.ok
        /\ Len(result.found) = Cardinality(Scheduled(result.start, result.end))
        /\ {result.found[i]["id"] : i \in 1..Len(result.found)}
               = Scheduled(result.start, result.end)
        /\ \A i, j \in 1..Len(result.found) :
               i < j => ~Earlier(result.found[j], result.found[i])

(***************************************************************************)
(* Moving an appointment onto its own previous interval                    *)
(***************************************************************************)
\* the update changes the datetime, and the merged appointment overlaps the
\* interval the appointment had and no other appointment of its doctor
MovesOntoItself(appointment_id, updated_data) ==
    LET appointment == appointments[appointment_id]
        check_data == DictUpdate(appointment, updated_data)
    IN  /\ "datetime" \in DOMAIN updated_data
        /\ updated_data["datetime"] # appointment["datetime"]
        /\ Parsable(updated_data["datetime"])
        /\ Parsable(appointment["datetime"])
        /\ Truthy(Get(check_data, "doctor", ""))
        /\ Overlap(StartOf(check_data), EndOf(check_data),
                   StartOf(appointment), EndOf(appointment))
        /\ \A other \in DOMAIN appointments \ {appointment_id} :
               \/ Get(appointments[other], "doctor", None) # check_data["doctor"]
               \/ ~Parsable(Get(appointments[other], "datetime", ""))
               \/ ~Overlap(StartOf(check_data), EndOf(check_data),
                           StartOf(appointments[other]), EndOf(appointments[other]))

\* C22: update_appointment leaves the appointment itself out of the conflict
\* check: moving an appointment to a datetime whose interval overlaps only its
\* own previous interval succeeds.
C22_UpdateExcludesItself ==
    \A appointment_id \in DOMAIN appointments, updated_data \in UpdateInputs :
        MovesOntoItself(appointment_id, updated_data) =>
            update_appointment(appointments, appointment_id, updated_data).result.ok

(***************************************************************************)
(* end_visit on a loaded store whose records may lack a list               *)
(***************************************************************************)
\* patient records as a file may hold them: written by add_patient, or
\* without the visit_history or the medical_history list
LoadedStoredPatients ==
    {StoredPatient,
     [k \in DOMAIN StoredPatient \ {"visit_history"} |-> StoredPatient[k]],
     [k \in DOMAIN StoredPatient \ {"medical_history"} |-> StoredPatient[k]]}

\* active visits as _initialize_visits leaves them: none, one with its
\* start_time parsed, one whose entry in the file had no start_time
LoadedActiveVisits ==
    {EmptyDict} \cup
    UNION {{("P1" :> NewVisit(visit_data, 0)),
            ("P1" :> [k \in DOMAIN NewVisit(visit_data, 0) \ {"start_time"} |->
                         NewVisit(visit_data, 0)[k]])} : visit_data \in VisitDataInputs}

InitLoadedVisits ==
    /\ patients \in {("P1" :> p) : p \in LoadedStoredPatients}
    /\ cfg_patients = patients
    /\ shared = TRUE
    /\ active_visits \in LoadedActiveVisits
    /\ appointments = EmptyDict
    /\ cfg_archived = EmptyDict
    /\ now = 0
    /\ result = NoCall
    /\ NothingElsewhere
    /\ NoDocuments

\* end_visit, called while no visit_history has outgrown the bound
EndLoadedVisit ==
    /\ \A patient_id \in DOMAIN patients : Len(VisitsOf(patients, patient_id)) <= MaxVisits
    /\ EndVisit

NextLoadedVisits ==
    \/ StartVisit
    \/ EndLoadedVisit
    \/ Tick

SpecLoadedVisits == InitLoadedVisits /\ [][NextLoadedVisits]_vars

\* C23: an end_visit that returns failure has mutated nothing: the active
\* visits, with their status and without an end_time, and every patient's
\* visit_history and medical_history are as before the call.
C23_FailedEndVisitChangesNothing ==
    [][(result'.op = "end_visit" /\ ~result'.ok) =>
           (active_visits' = active_visits /\ patients' = patients)]_vars

(***************************************************************************)
(* Cancelled and completed appointments keep their slot                    *)
(***************************************************************************)
\* the new appointment is for the doctor of the stored one and their
\* intervals overlap
TakesSlotOf(appointment_data, appointment_id) ==
    /\ Truthy(Get(appointment_data, "doctor", ""))
    /\ appointment_data["doctor"] = Get(appointments[appointment_id], "doctor", None)
    /\ Parsable(Get(appointment_data, "datetime", ""))
    /\ Parsable(Get(appointments[appointment_id], "datetime", ""))
    /\ Overlap(StartOf(appointment_data), EndOf(appointment_data),
               StartOf(appointments[appointment_id]), EndOf(appointments[appointment_id]))

\* C24: the conflict check ignores status: while a cancelled or completed
\* appointment is stored, add_appointment of an overlapping appointment for the
\* same doctor is refused and stores nothing.
C24_CancelledStillBlocks ==
    \A appointment_id \in DOMAIN appointments, appointment_data \in AddInputs,
       uuid \in UuidPool :
        (/\ appointments[appointment_id]["status"] \in {"cancelled", "completed"}
         /\ TakesSlotOf(appointment_data, appointment_id))
            => /\ ~add_appointment(appointments, appointment_data, uuid).result.ok
               /\ add_appointment(appointments, appointment_data, uuid).appointments
                      = appointments

\* an add has just been refused for a conflict while the only stored
\* appointment is a cancelled or completed one
C24_Witness ==
    /\ result.op = "add_appointment"
    /\ result.msg = MsgConflict
    /\ \E appointment_id \in DOMAIN appointments :
           /\ DOMAIN appointments = {appointment_id}
           /\ appointments[appointment_id]["status"] \in {"cancelled", "completed"}

(***************************************************************************)
(* Replacing a document's file                                             *)
(***************************************************************************)
\* C25: an update_document that returns failure leaves the document's
\* metadata as it was and every file stored before the call in place, so a
\* metadata entry's file_name still names a stored file.
C25_FailedUpdateKeepsOldFile ==
    [][(result'.op = "update_document" /\ ~result'.ok) =>
           (documents_metadata' = documents_metadata /\ files \subseteq files')]_vars

(***************************************************************************)
(* Several AppointmentManager instances over one ConfigManager.            *)
(* instances.objects are the appointment dicts alive, instances.config is  *)
(* the one config["appointments"] refers to, instances.managers gives the  *)
(* one each instance's self.appointments refers to.                        *)
(***************************************************************************)
MaxInstances == 2

InstanceNames == <<"appointment view", "day view", "dashboard">>
InstanceIds == {InstanceNames[i] : i \in 1..MaxInstances}

\* config and each instance hold one dict each at most
Refs == 0..MaxInstances

InstanceInputs ==
    [id : {"a1", "a2"}, patient_id : {"P1"}, doctor : {"Dr. Smith"},
     datetime : DOMAIN IsoMinutes]

\* __init__ and _initialize_appointments: self.appointments is the dict
\* config["appointments"] itself, not a copy of it
initialize_appointments(inst, i) ==
    [inst EXCEPT !.managers = (i :> inst.config) @@ inst.managers]

\* a method of instance i has changed self.appointments in place to appts
InPlace(inst, i, appts) ==
    [inst EXCEPT !.objects[inst.managers[i]] = appts]

\* save_data of instance i: config["appointments"] becomes a deep copy of
\* self.appointments, a new dict that no instance holds
save_data(inst, i) ==
    LET held == {inst.managers[j] : j \in DOMAIN inst.managers}
        fresh == CHOOSE r \in Refs : r \notin held
    IN  [inst EXCEPT !.objects[fresh] = inst.objects[inst.managers[i]], !.config = fresh]

\* a method of instance i has returned r: its changes were made in place,
\* and it saved if it came to its end
Returned(inst, i, r) ==
    IF r.result.ok THEN save_data(InPlace(inst, i, r.appointments), i)
    ELSE InPlace(inst, i, r.appointments)

InstancesIdle ==
    /\ UNCHANGED <<appointments, patients, active_visits, cfg_patients, cfg_archived, shared,
                   documents_metadata, files, test_results, users, login, now>>

InitInstances ==
    /\ instances = [objects |-> [r \in Refs |-> EmptyDict], config |-> 0, managers |-> <<>>]
    /\ appointments = EmptyDict
    /\ patients = EmptyDict
    /\ active_visits = EmptyDict
    /\ cfg_patients = EmptyDict
    /\ cfg_archived = EmptyDict
    /\ shared = TRUE
    /\ now = 0
    /\ result = NoCall
    /\ NoDocuments
    /\ users = EmptyDict
    /\ login = NoLogin

CreateInstance ==
    \E i \in InstanceIds \ DOMAIN instances.managers :
        /\ instances' = initialize_appointments(instances, i)
        /\ result' = [op |-> "AppointmentManager", ok |-> TRUE, msg |-> ""]
        /\ InstancesIdle

InstanceAdds ==
    \E i \in DOMAIN instances.managers, appointment_data \in InstanceInputs,
       uuid \in UuidPool :
        LET r == add_appointment(instances.objects[instances.managers[i]],
                                 appointment_data, uuid)
        IN  /\ instances' = Returned(instances, i, r)
            /\ result' = r.result
            /\ InstancesIdle

InstanceDeletes ==
    \E i \in DOMAIN instances.managers, appointment_id \in {"a1", "a2"} :
        LET r == delete_appointment(instances.objects[instances.managers[i]], appointment_id)
        IN  /\ instances' = Returned(instances, i, r)
            /\ result' = r.result
            /\ InstancesIdle

NextInstances ==
    \/ CreateInstance
    \/ InstanceAdds
    \/ InstanceDeletes

SpecInstances == InitInstances /\ [][NextInstances]_vars

\* C26: after every successful mutating operation through any instance, the
\* appointment collection of each instance equals config["appointments"].
C26_InstancesAgreeWithConfig ==
    [][(result'.op \in {"add_appointment", "delete_appointment"} /\ result'.ok) =>
           \A i \in DOMAIN instances'.managers :
               instances'.objects[instances'.managers[i]]
                   = instances'.objects[instances'.config]]_vars

(***************************************************************************)
(* The patient registry: add_patient, delete_patient and the visits        *)
(***************************************************************************)
MsgActiveVisit == "Cannot delete patient with active visit. End the visit first."

\* a faulty delete_patient that does not look for an active visit
delete_patient_IgnoresVisit(pats, visits, patient_id) ==
    IF patient_id \notin DOMAIN pats
    THEN Outcome(pats, visits, "delete_patient", FALSE, MsgPatientNotFound)
    ELSE Outcome(Del(pats, patient_id), visits, "delete_patient", TRUE,
                 "Patient deleted successfully")

delete_patient(pats, visits, patient_id) ==
    IF patient_id \notin DOMAIN pats
    THEN Outcome(pats, visits, "delete_patient", FALSE, MsgPatientNotFound)
    ELSE IF patient_id \in DOMAIN visits
    THEN Outcome(pats, visits, "delete_patient", FALSE, MsgActiveVisit)
    ELSE Outcome(Del(pats, patient_id), visits, "delete_patient", TRUE,
                 "Patient deleted successfully")

DeletePatient ==
    \E patient_id \in PatientIds :
        DoneVisit(delete_patient(patients, active_visits, patient_id))

NextRegistry ==
    \/ AddPatient
    \/ DeletePatient
    \/ StartVisit
    \/ EndVisit

SpecRegistry == Init /\ [][NextRegistry]_vars

\* C27: every key of the active-visits mapping is the ID of an existing
\* patient; start_visit for an unknown patient fails and changes nothing, and
\* delete_patient of a patient with an active visit is refused and leaves the
\* patient and the visit in place.
C27_ActiveVisitsHavePatients ==
    /\ DOMAIN active_visits \subseteq DOMAIN patients
    /\ \A patient_id \in PatientIds \ DOMAIN patients, visit_data \in VisitDataInputs :
           LET r == start_visit(patients, active_visits, patient_id, visit_data, now)
           IN  ~r.result.ok /\ r.active_visits = active_visits /\ r.patients = patients
    /\ \A patient_id \in DOMAIN active_visits :
           LET r == delete_patient(patients, active_visits, patient_id)
           IN  ~r.result.ok /\ r.active_visits = active_visits /\ r.patients = patients

\* a delete_patient has just been refused because of the patient's active visit
C27_Witness ==
    /\ result.op = "delete_patient"
    /\ result.msg = MsgActiveVisit
    /\ \E patient_id \in DOMAIN patients : patient_id \in DOMAIN active_visits

\* C28: add_patient with a name and no id of the caller's succeeds: the ID it
\* makes from the number of patients is not the ID of a stored patient.
C28_GeneratedIdIsFree ==
    \A patient_data \in PatientInputs :
        (Truthy(Get(patient_data, "name", None)) /\ "id" \notin DOMAIN patient_data)
            => add_patient(patients, active_visits, patient_data, now).result.ok

(***************************************************************************)
(* ConfigManager: the user table                                           *)
(***************************************************************************)
MaxUsers == 3

Usernames == {"admin", "root", "nurse"}
Roles == {"admin", "user"}

\* len(password) of the passwords in use
PasswordLength == ("admin123" :> 8) @@ ("correct horse" :> 13) @@ ("short" :> 5)
Passwords == DOMAIN PasswordLength
MinPasswordLength == 8

\* argon2.PasswordHasher().hash, and the legacy hashlib.sha256(salt + password)
hash_password(password) == <<"argon2", password>>
sha256(salt, password) == <<"sha256", salt, password>>

UserOutcome(table, op, ok, msg) ==
    [users |-> table, result |-> [op |-> op, ok |-> ok, msg |-> msg]]

MsgSaveFailed == "Failed to save user data"
MsgLastAdmin == "Cannot delete the last admin account"
MsgRoleKeyError == "KeyError: 'role'"

\* the table is changed before save_users is called; a failed save is
\* reported and the change stays in memory
add_user(table, username, password, role, name, save_ok) ==
    IF username \in DOMAIN table
    THEN UserOutcome(table, "add_user", FALSE, "Username already exists")
    ELSE IF PasswordLength[password] < MinPasswordLength
    THEN UserOutcome(table, "add_user", FALSE, "Password must be at least 8 characters long")
    ELSE UserOutcome(Put(table, username,
                         [password |-> hash_password(password), role |-> role, name |-> name,
                          created_on |-> Stamp]),
                     "add_user", save_ok,
                     IF save_ok THEN "User created successfully" ELSE MsgSaveFailed)

change_password(table, username, new_password, save_ok) ==
    IF username \notin DOMAIN table
    THEN UserOutcome(table, "change_password", FALSE, "User does not exist")
    ELSE IF PasswordLength[new_password] < MinPasswordLength
    THEN UserOutcome(table, "change_password", FALSE,
                     "Password must be at least 8 characters long")
    ELSE UserOutcome(Put(table, username,
                         Del(Put(table[username], "password", hash_password(new_password)),
                             "salt")),
                     "change_password", save_ok,
                     IF save_ok THEN "Password updated successfully" ELSE MsgSaveFailed)

admin_count(table) ==
    Cardinality({u \in DOMAIN table : Get(table[u], "role", None) = "admin"})

\* a faulty delete_user that does not count the admins
delete_user_AnyAdmin(table, username, save_ok) ==
    IF username \notin DOMAIN table
    THEN UserOutcome(table, "delete_user", FALSE, "User does not exist")
    ELSE IF "role" \notin DOMAIN table[username]
    THEN UserOutcome(table, "delete_user", FALSE, MsgRoleKeyError)
    ELSE UserOutcome(Del(table, username), "delete_user", save_ok,
                     IF save_ok THEN "User deleted successfully" ELSE MsgSaveFailed)

\* self.users[username]["role"] raises KeyError out of the call for a loaded
\* user without a role
delete_user(table, username, save_ok) ==
    IF username \notin DOMAIN table
    THEN UserOutcome(table, "delete_user", FALSE, "User does not exist")
    ELSE IF "role" \notin DOMAIN table[username]
    THEN UserOutcome(table, "delete_user", FALSE, MsgRoleKeyError)
    ELSE IF table[username]["role"] = "admin" /\ admin_count(table) <= 1
    THEN UserOutcome(table, "delete_user", FALSE, MsgLastAdmin)
    ELSE UserOutcome(Del(table, username), "delete_user", save_ok,
                     IF save_ok THEN "User deleted successfully" ELSE MsgSaveFailed)

\* _create_default_admin, and users a file may hold: with a legacy salted
\* hash, or without a role
DefaultAdmin ==
    [password |-> hash_password("admin123"), role |-> "admin", name |-> "Admin User",
     created_on |-> Stamp]

LegacyAdmin ==
    [password |-> sha256("salt", "admin123"), salt |-> "salt", role |-> "admin",
     name |-> "Admin User"]

LoadedUsers ==
    {("admin" :> DefaultAdmin),
     ("admin" :> LegacyAdmin),
     ("admin" :> DefaultAdmin) @@ ("root" :> DefaultAdmin),
     ("admin" :> DefaultAdmin) @@ ("nurse" :> [password |-> hash_password("correct horse"),
                                                name |-> "N"])}

UsersIdle ==
    UNCHANGED <<appointments, patients, active_visits, cfg_patients, cfg_archived, shared,
                documents_metadata, files, test_results, instances, now>>

InitUsers ==
    /\ users \in LoadedUsers
    /\ login = NoLogin
    /\ instances = NoInstances
    /\ appointments = EmptyDict
    /\ patients = EmptyDict
    /\ active_visits = EmptyDict
    /\ cfg_patients = EmptyDict
    /\ cfg_archived = EmptyDict
    /\ shared = TRUE
    /\ now = 0
    /\ result = NoCall
    /\ NoDocuments

DoneUser(r) ==
    /\ users' = r.users
    /\ result' = r.result
    /\ UNCHANGED login
    /\ UsersIdle

AddUser ==
    \E username \in Usernames, password \in Passwords, role \in Roles, save_ok \in BOOLEAN :
        /\ Cardinality(DOMAIN users) < MaxUsers
        /\ DoneUser(add_user(users, username, password, role, "", save_ok))

ChangePassword ==
    \E username \in Usernames, new_password \in Passwords, save_ok \in BOOLEAN :
        DoneUser(change_password(users, username, new_password, save_ok))

DeleteUser ==
    \E username \in Usernames, save_ok \in BOOLEAN :
        DoneUser(delete_user(users, username, save_ok))

NextUsers ==
    \/ AddUser
    \/ ChangePassword
    \/ DeleteUser

SpecUsers == InitUsers /\ [][NextUsers]_vars

\* C29: at least one admin user remains after any sequence of add_user,
\* change_password and delete_user; delete_user of the only admin is refused
\* and leaves the user table unchanged.
C29_AnAdminRemains ==
    /\ admin_count(users) >= 1
    /\ \A username \in DOMAIN users, save_ok \in BOOLEAN :
           (Get(users[username], "role", None) = "admin" /\ admin_count(users) = 1)
               => /\ ~delete_user(users, username, save_ok).result.ok
                  /\ delete_user(users, username, save_ok).users = users

\* the only admin has just been refused its deletion
C29_Witness ==
    /\ result.op = "delete_user"
    /\ result.msg = MsgLastAdmin
    /\ admin_count(users) = 1

(***************************************************************************)
(* LoginWindow.attempt_login over ConfigManager.validate_login             *)
(***************************************************************************)
\* what the user typed into the username field, and str.strip() of it
strip == ("admin" :> "admin") @@ (" admin " :> "admin") @@ ("ghost" :> "ghost") @@
         ("  " :> "")
UsernameTexts == DOMAIN strip
PasswordTexts == {"admin123", "letmein", ""}

\* argon2 verify, raising VerifyMismatchError caught as False
verify_password(hashed_password, password) == hashed_password = hash_password(password)

\* validate_login returns the user's record, or None, here the empty dict, which
\* "if user_data" takes the same way; a legacy salted hash that matches is
\* replaced by an argon2 hash and the salt removed
validate_login(table, username, password) ==
    IF username = "" \/ password = ""
    THEN [users |-> table, user_data |-> EmptyDict]
    ELSE IF username \notin DOMAIN table
    THEN [users |-> table, user_data |-> EmptyDict]
    ELSE LET user_data == table[username]
         IN  IF "salt" \in DOMAIN user_data
             THEN IF sha256(user_data["salt"], password) = user_data["password"]
                  THEN LET upgraded == Del(Put(user_data, "password",
                                               hash_password(password)), "salt")
                       IN  [users |-> Put(table, username, upgraded),
                            user_data |-> upgraded]
                  ELSE [users |-> table, user_data |-> EmptyDict]
             ELSE IF verify_password(user_data["password"], password)
                  THEN [users |-> table, user_data |-> user_data]
                  ELSE [users |-> table, user_data |-> EmptyDict]

MsgEnterBoth == "Please enter both username and password."
MsgTooMany == "Too many failed login attempts. Please try again later."
MsgInvalid == "Invalid username or password."

\* validated says whether validate_login was called, ok whether
\* login_successful was emitted
LoginOutcome(attempts, table, ok, msg, validated, username, password) ==
    [login_attempts |-> attempts, users |-> table,
     result |-> [op |-> "attempt_login", ok |-> ok, msg |-> msg, validated |-> validated,
                 username |-> username, password |-> password]]

\* a faulty attempt_login that locks one failure later
attempt_login_LocksLater(attempts, table, username_text, password) ==
    LET username == strip[username_text]
        checked == validate_login(table, username, password)
    IN  IF username = "" \/ password = ""
        THEN LoginOutcome(attempts, table, FALSE, MsgEnterBoth, FALSE, username, password)
        ELSE IF attempts > 5
        THEN LoginOutcome(attempts, table, FALSE, MsgTooMany, FALSE, username, password)
        ELSE IF DOMAIN checked.user_data # {}
        THEN LoginOutcome(0, checked.users, TRUE, "", TRUE, username, password)
        ELSE LoginOutcome(attempts + 1, checked.users, FALSE, MsgInvalid, TRUE, username,
                          password)

attempt_login(attempts, table, username_text, password) ==
    LET username == strip[username_text]
        checked == validate_login(table, username, password)
    IN  IF username = "" \/ password = ""
        THEN LoginOutcome(attempts, table, FALSE, MsgEnterBoth, FALSE, username, password)
        ELSE IF attempts >= 5
        THEN LoginOutcome(attempts, table, FALSE, MsgTooMany, FALSE, username, password)
        ELSE IF DOMAIN checked.user_data # {}
        THEN LoginOutcome(0, checked.users, TRUE, "", TRUE, username, password)
        ELSE LoginOutcome(attempts + 1, checked.users, FALSE, MsgInvalid, TRUE, username,
                          password)

InitLogin ==
    /\ users \in {table \in LoadedUsers : \A u \in DOMAIN table : "role" \in DOMAIN table[u]}
    /\ login = NoLogin
    /\ instances = NoInstances
    /\ appointments = EmptyDict
    /\ patients = EmptyDict
    /\ active_visits = EmptyDict
    /\ cfg_patients = EmptyDict
    /\ cfg_archived = EmptyDict
    /\ shared = TRUE
    /\ now = 0
    /\ result = NoCall
    /\ NoDocuments

\* failed_in_a_row counts the attempts validate_login turned down since the
\* last successful login
AttemptLogin ==
    \E username_text \in UsernameTexts, password \in PasswordTexts :
        LET r == attempt_login(login.login_attempts, users, username_text, password)
        IN  /\ users' = r.users
            /\ result' = r.result
            /\ login' = [login_attempts |-> r.login_attempts,
                         failed_in_a_row |->
                             IF r.result.ok THEN 0
                             ELSE IF r.result.validated THEN login.failed_in_a_row + 1
                             ELSE login.failed_in_a_row]
            /\ UsersIdle

NextLogin == AttemptLogin

SpecLogin == InitLogin /\ [][NextLogin]_vars

\* C30: once five attempts have failed in a row, every later attempt_login is
\* rejected without validate_login being called and without login_successful
\* being emitted; a successful login resets the counter to zero.
C30_LockedAfterFiveFailures ==
    [][/\ login.failed_in_a_row >= 5 =>
              (~result'.validated /\ ~result'.ok /\ login'.failed_in_a_row >= 5)
       /\ result'.ok => login'.login_attempts = 0]_vars

\* correct credentials have just been turned away by the lock
C30_Witness ==
    /\ result.op = "attempt_login"
    /\ result.msg = MsgTooMany
    /\ login.failed_in_a_row >= 5
    /\ DOMAIN validate_login(users, result.username, result.password).user_data # {}

====
